---------------------------- MODULE Spec2Model ----------------------------
(***************************************************************************)
(* A model of differentiable_robot_model: the kinematic tree of rigid      *)
(* bodies (robot_model.py) and the spatial vector algebra it is built on   *)
(* (spatial_vector_algebra.py).                                            *)
(*                                                                         *)
(* Numbers.  Tensor entries are exact rationals <<n, d>> (d > 0, lowest    *)
(* terms); d = 0 encodes the IEEE values the code can produce by dividing  *)
(* by zero: <<1,0>> = +inf, <<-1,0>> = -inf, <<0,0>> = NaN.  Joint angles  *)
(* are counted in quarter turns, so that cos and sin are exact.            *)
(*                                                                         *)
(* Tensors.  A batched tensor is a sequence of rows (the leading batch     *)
(* axis); operations act row by row and broadcast a one-row operand, as    *)
(* torch does.                                                             *)
(***************************************************************************)
EXTENDS Integers, Sequences, FiniteSets, TLC

-----------------------------------------------------------------------------
(* Exact arithmetic *)

Abs(i) == IF i < 0 THEN -i ELSE i
Sgn(i) == IF i < 0 THEN -1 ELSE IF i = 0 THEN 0 ELSE 1

RECURSIVE GCD(_, _)
GCD(a, b) == IF b = 0 THEN a ELSE GCD(b, a % b)

NNorm(n, d) ==
  IF d = 1 THEN <<n, 1>>
  ELSE IF n = 0 THEN <<0, 1>>
  ELSE LET g == GCD(Abs(n), Abs(d))
           s == IF d < 0 THEN -1 ELSE 1
       IN  <<s * (n \div g), s * (d \div g)>>

N(i)   == <<i, 1>>
NZero  == <<0, 1>>
NOne   == <<1, 1>>
NInf   == <<1, 0>>
NNaN   == <<0, 0>>

NNeg(a) == <<-a[1], a[2]>>

NAdd(a, b) ==
  IF a[2] = 0 \/ b[2] = 0
  THEN IF a[2] = 0 /\ b[2] = 0
       THEN (IF a[1] = b[1] THEN a ELSE NNaN)
       ELSE (IF a[2] = 0 THEN a ELSE b)
  ELSE IF a[1] = 0 THEN b
  ELSE IF b[1] = 0 THEN a
  ELSE IF a[2] = b[2] THEN NNorm(a[1] + b[1], a[2])
  ELSE NNorm(a[1] * b[2] + b[1] * a[2], a[2] * b[2])

NSub(a, b) == NAdd(a, NNeg(b))

NMul(a, b) ==
  IF a[2] = 0 \/ b[2] = 0 THEN <<Sgn(a[1]) * Sgn(b[1]), 0>>
  ELSE IF a[1] = 0 \/ b[1] = 0 THEN NZero
  ELSE IF a[2] = 1 /\ b[2] = 1 THEN <<a[1] * b[1], 1>>
  ELSE NNorm(a[1] * b[1], a[2] * b[2])

NInv(a) ==
  IF a[2] = 0 THEN (IF a[1] = 0 THEN NNaN ELSE NZero)
  ELSE IF a[1] = 0 THEN NInf
  ELSE <<Sgn(a[1]) * a[2], Abs(a[1])>>

NDiv(a, b) == NMul(a, NInv(b))

-----------------------------------------------------------------------------
(* 3-vectors and 3x3 matrices *)

V3(a, b, c) == <<N(a), N(b), N(c)>>
Zero3 == V3(0, 0, 0)

(* the tuple of the three values f[1], f[2], f[3] *)
Tup3(f) == <<f[1], f[2], f[3]>>

VAdd(u, v) == Tup3([i \in 1 .. 3 |-> NAdd(u[i], v[i])])
VSub(u, v) == Tup3([i \in 1 .. 3 |-> NSub(u[i], v[i])])
VNeg(u)    == Tup3([i \in 1 .. 3 |-> NNeg(u[i])])
VScale(s, u) == Tup3([i \in 1 .. 3 |-> NMul(s, u[i])])
Sum3(p) == NAdd(NAdd(p[1], p[2]), p[3])
VDot(u, v) == Sum3(Tup3([i \in 1 .. 3 |-> NMul(u[i], v[i])]))

(* the index after i in the cycle 1, 2, 3 *)
Nx(i) == (i % 3) + 1

cross_product(u, v) ==
  Tup3([i \in 1 .. 3 |-> NSub(NMul(u[Nx(i)], v[Nx(Nx(i))]), NMul(u[Nx(Nx(i))], v[Nx(i)]))])

vector3_to_skew_symm_matrix(v) ==
  << <<NZero, NNeg(v[3]), v[2]>>,
     <<v[3], NZero, NNeg(v[1])>>,
     <<NNeg(v[2]), v[1], NZero>> >>

Eye3 == <<V3(1, 0, 0), V3(0, 1, 0), V3(0, 0, 1)>>
Zero33 == <<Zero3, Zero3, Zero3>>

MCol(M, j) == <<M[1][j], M[2][j], M[3][j]>>
MTranspose(M) == <<MCol(M, 1), MCol(M, 2), MCol(M, 3)>>
MVec(M, v) == Tup3([i \in 1 .. 3 |-> VDot(M[i], v)])
MRow(r, B) == Tup3([j \in 1 .. 3 |-> VDot(r, MCol(B, j))])
MMul(A, B) == Tup3([i \in 1 .. 3 |-> MRow(A[i], B)])
MAdd(A, B) == Tup3([i \in 1 .. 3 |-> VAdd(A[i], B[i])])
MScale(s, A) == Tup3([i \in 1 .. 3 |-> VScale(s, A[i])])
MNeg(A) == Tup3([i \in 1 .. 3 |-> VNeg(A[i])])

(* cos and sin of k quarter turns *)
QCos(k) == LET m == k % 4 IN IF m = 0 THEN 1 ELSE IF m = 2 THEN -1 ELSE 0
QSin(k) == LET m == k % 4 IN IF m = 1 THEN 1 ELSE IF m = 3 THEN -1 ELSE 0

x_rot(k) == << V3(1, 0, 0), V3(0, QCos(k), -QSin(k)), V3(0, QSin(k), QCos(k)) >>
y_rot(k) == << V3(QCos(k), 0, QSin(k)), V3(0, 1, 0), V3(-QSin(k), 0, QCos(k)) >>
z_rot(k) == << V3(QCos(k), -QSin(k), 0), V3(QSin(k), QCos(k), 0), V3(0, 0, 1) >>

-----------------------------------------------------------------------------
(* The batch axis *)

(* rows support batches of up to four rows *)
BAt(a, i) == a[IF Len(a) = 1 THEN 1 ELSE i]
BLen(a, b) == IF Len(a) > Len(b) THEN Len(a) ELSE Len(b)

BMap(Op(_), a) ==
  CASE Len(a) = 0 -> <<>>
    [] Len(a) = 1 -> <<Op(a[1])>>
    [] Len(a) = 2 -> <<Op(a[1]), Op(a[2])>>
    [] Len(a) = 3 -> <<Op(a[1]), Op(a[2]), Op(a[3])>>
    [] Len(a) = 4 -> <<Op(a[1]), Op(a[2]), Op(a[3]), Op(a[4])>>

BMap2(Op(_, _), a, b) ==
  CASE BLen(a, b) = 0 -> <<>>
    [] BLen(a, b) = 1 -> <<Op(a[1], b[1])>>
    [] BLen(a, b) = 2 -> <<Op(BAt(a, 1), BAt(b, 1)), Op(BAt(a, 2), BAt(b, 2))>>
    [] BLen(a, b) = 3 -> <<Op(BAt(a, 1), BAt(b, 1)), Op(BAt(a, 2), BAt(b, 2)),
                            Op(BAt(a, 3), BAt(b, 3))>>
    [] BLen(a, b) = 4 -> <<Op(BAt(a, 1), BAt(b, 1)), Op(BAt(a, 2), BAt(b, 2)),
                            Op(BAt(a, 3), BAt(b, 3)), Op(BAt(a, 4), BAt(b, 4))>>

(* torch.zeros((batch_size, ...)): batch_size copies of one row *)
BRepeat(row, batch_size) ==
  CASE batch_size = 0 -> <<>>
    [] batch_size = 1 -> <<row>>
    [] batch_size = 2 -> <<row, row>>
    [] batch_size = 3 -> <<row, row, row>>
    [] batch_size = 4 -> <<row, row, row, row>>

-----------------------------------------------------------------------------
(* CoordinateTransform: one row is [rot |-> 3x3, trans |-> 3-vector] *)

CT(rot, trans) == [rot |-> rot, trans |-> trans]
CTIdentity == CT(Eye3, Zero3)

(* the translation negated but not rotated *)
CT_inverse_unrotated(T) == CT(MTranspose(T.rot), VNeg(T.trans))

CT_inverse(T) ==
  LET rot_transpose == MTranspose(T.rot)
  IN  CT(rot_transpose, VNeg(MVec(rot_transpose, T.trans)))

CT_multiply_transform(T, coordinate_transform) ==
  CT(MMul(T.rot, coordinate_transform.rot),
     VAdd(MVec(T.rot, coordinate_transform.trans), T.trans))

CT_trans_cross_rot(T) == MMul(vector3_to_skew_symm_matrix(T.trans), T.rot)

(* A 6x6 matrix over [ang, lin] is kept as its four 3x3 blocks. *)
M6(aa, al, la, ll) == [aa |-> aa, al |-> al, la |-> la, ll |-> ll]

CT_to_matrix(T) ==
  LET Rt == MTranspose(T.rot)
      t  == vector3_to_skew_symm_matrix(T.trans)
  IN  M6(Rt, Zero33, MNeg(MMul(Rt, t)), Rt)

(* block (i, j) of a 6x6 matrix, and the matrix of the blocks f[i, j] *)
M6Blk(A, i, j) == IF i = 1 THEN (IF j = 1 THEN A.aa ELSE A.al) ELSE (IF j = 1 THEN A.la ELSE A.ll)
M6Of(f) == M6(f[1, 1], f[1, 2], f[2, 1], f[2, 2])

M6Transpose(A) == M6Of([i \in 1 .. 2, j \in 1 .. 2 |-> MTranspose(M6Blk(A, j, i))])
M6Mul(A, B) ==
  M6Of([i \in 1 .. 2, j \in 1 .. 2 |->
          MAdd(MMul(M6Blk(A, i, 1), M6Blk(B, 1, j)), MMul(M6Blk(A, i, 2), M6Blk(B, 2, j)))])
M6Add(A, B) == M6Of([i \in 1 .. 2, j \in 1 .. 2 |-> MAdd(M6Blk(A, i, j), M6Blk(B, i, j))])
M6Sub(A, B) == M6Of([i \in 1 .. 2, j \in 1 .. 2 |-> MAdd(M6Blk(A, i, j), MNeg(M6Blk(B, i, j)))])

(* the 6-vector of get_vector() is [ang, lin]; part 1 is ang, part 2 is lin *)
SVPart(v, i) == IF i = 1 THEN v.ang ELSE v.lin
SVOf(f) == [ang |-> f[1], lin |-> f[2]]

M6Vec(A, v) ==
  SVOf([i \in 1 .. 2 |-> VAdd(MVec(M6Blk(A, i, 1), v.ang), MVec(M6Blk(A, i, 2), v.lin))])
Outer3(u, v) == Tup3([i \in 1 .. 3 |-> VScale(u[i], v)])
M6Outer(u, v) == M6Of([i \in 1 .. 2, j \in 1 .. 2 |-> Outer3(SVPart(u, i), SVPart(v, j))])

(* get_quaternion, for the rotations the model reaches (signed permutation   *)
(* matrices).  The entries of the result are irrational in general, so a     *)
(* quaternion (x, y, z, w) is kept exactly as [num, s]: entry i is           *)
(* num[i] / (2 * sqrt(s)), with s the largest of the four candidates under   *)
(* the square root and num the row of quat_by_rijk that argmax selects.      *)
IntOf(a) == a[1]

Pos(v) == IF v > 0 THEN v ELSE 0

(* q_abs squared, before the square root *)
QAbs2(m) ==
  << Pos(1 + IntOf(m[1][1]) + IntOf(m[2][2]) + IntOf(m[3][3])),
     Pos(1 + IntOf(m[1][1]) - IntOf(m[2][2]) - IntOf(m[3][3])),
     Pos(1 - IntOf(m[1][1]) + IntOf(m[2][2]) - IntOf(m[3][3])),
     Pos(1 - IntOf(m[1][1]) - IntOf(m[2][2]) + IntOf(m[3][3])) >>

QuatByRijk(m, q_abs2) ==
  << <<q_abs2[1], IntOf(m[3][2]) - IntOf(m[2][3]), IntOf(m[1][3]) - IntOf(m[3][1]),
       IntOf(m[2][1]) - IntOf(m[1][2])>>,
     <<IntOf(m[3][2]) - IntOf(m[2][3]), q_abs2[2], IntOf(m[2][1]) + IntOf(m[1][2]),
       IntOf(m[1][3]) + IntOf(m[3][1])>>,
     <<IntOf(m[1][3]) - IntOf(m[3][1]), IntOf(m[2][1]) + IntOf(m[1][2]), q_abs2[3],
       IntOf(m[2][3]) + IntOf(m[3][2])>>,
     <<IntOf(m[2][1]) - IntOf(m[1][2]), IntOf(m[3][1]) + IntOf(m[1][3]),
       IntOf(m[3][2]) + IntOf(m[2][3]), q_abs2[4]>> >>

(* argmax: the first index holding the largest value *)
ArgMax(v) ==
  CHOOSE i \in 1 .. Len(v) : /\ \A j \in 1 .. Len(v) : v[j] <= v[i]
                             /\ \A j \in 1 .. (i - 1) : v[j] < v[i]

QuatOfRow(row, s) == [num |-> <<row[2], row[3], row[4], row[1]>>, s |-> s]

QuatSelect(quat_by_rijk, q_abs2, k) == QuatOfRow(quat_by_rijk[k], q_abs2[k])

CT_get_quaternion(T) ==
  QuatSelect(QuatByRijk(T.rot, QAbs2(T.rot)), QAbs2(T.rot), ArgMax(QAbs2(T.rot)))

-----------------------------------------------------------------------------
(* SpatialMotionVec and SpatialForceVec: one row is [lin, ang] *)

SV(lin, ang) == [lin |-> lin, ang |-> ang]
SVZero == SV(Zero3, Zero3)

add_motion_vec(self, smv) == SVOf([i \in 1 .. 2 |-> VAdd(SVPart(self, i), SVPart(smv, i))])

cross_motion_vec(self, smv) ==
  SV(VAdd(cross_product(self.ang, smv.lin), cross_product(self.lin, smv.ang)),
     cross_product(self.ang, smv.ang))

cross_force_vec(self, sfv) ==
  SV(cross_product(self.ang, sfv.lin),
     VAdd(cross_product(self.ang, sfv.ang), cross_product(self.lin, sfv.lin)))

motion_transform(self, transform) ==
  SV(VAdd(MVec(CT_trans_cross_rot(transform), self.ang), MVec(transform.rot, self.lin)),
     MVec(transform.rot, self.ang))

add_force_vec(self, sfv) == SVOf([i \in 1 .. 2 |-> VAdd(SVPart(self, i), SVPart(sfv, i))])

force_transform(self, transform) ==
  SV(MVec(transform.rot, self.lin),
     VAdd(MVec(CT_trans_cross_rot(transform), self.lin), MVec(transform.rot, self.ang)))

sv_multiply(self, v) == SVOf([i \in 1 .. 2 |-> VScale(v, SVPart(self, i))])

sv_dot(self, smv) == NAdd(VDot(self.ang, smv.ang), VDot(self.lin, smv.lin))

-----------------------------------------------------------------------------
(* DifferentiableSpatialRigidBodyInertia: [mass, com, inertia_mat] *)

Inertia3(I) ==
  LET com_skew_symm_mat == vector3_to_skew_symm_matrix(I.com)
  IN  MAdd(I.inertia_mat, MScale(I.mass, MMul(com_skew_symm_mat, MTranspose(com_skew_symm_mat))))

multiply_motion_vec(I, smv) ==
  LET mcom == VScale(I.mass, I.com)
      new_lin_force == VSub(VScale(I.mass, smv.lin), cross_product(mcom, smv.ang))
      new_ang_force == VAdd(MVec(Inertia3(I), smv.ang), cross_product(mcom, smv.lin))
  IN  SV(new_lin_force, new_ang_force)

get_spatial_mat(I) ==
  LET mcom == VScale(I.mass, I.com)
  IN  M6(Inertia3(I),
         vector3_to_skew_symm_matrix(mcom),
         MNeg(vector3_to_skew_symm_matrix(mcom)),
         MScale(I.mass, Eye3))

-----------------------------------------------------------------------------
(* The robot description the loader supplies: an ordered list of links, each *)
(* with its parent's name ("none" for the root), joint type, joint axis,     *)
(* joint-frame offset (trans, rot), inertial parameters and damping.         *)

LinkDesc(name, parent, joint_type, joint_axis, trans, rot, mass, com, inertia_diag, damping) ==
  [ name |-> name, parent |-> parent, joint_type |-> joint_type,
    joint_axis |-> joint_axis, trans |-> trans, rot |-> rot,
    inertia |-> [ mass |-> N(mass), com |-> com,
                  inertia_mat |-> << V3(inertia_diag[1], 0, 0),
                                     V3(0, inertia_diag[2], 0),
                                     V3(0, 0, inertia_diag[3]) >> ],
    joint_damping |-> N(damping) ]

AxX == V3(1, 0, 0)
AxY == V3(0, 1, 0)
AxZ == V3(0, 0, 1)
AxNegZ == V3(0, 0, -1)

BaseLink == LinkDesc("base", "none", "fixed", Zero3, Zero3, Eye3, 0, Zero3, <<0, 0, 0>>, 0)

(* a serial chain with a fixed joint after the first controlled joint *)
ChainFixedAfter ==
  << BaseLink,
     LinkDesc("l1", "base", "revolute", AxZ, V3(0, 0, 1), Eye3, 1, V3(1, 0, 0), <<1, 1, 1>>, 1),
     LinkDesc("l2", "l1", "fixed", Zero3, V3(1, 0, 0), x_rot(1), 1, V3(0, 1, 0), <<1, 1, 1>>, 0),
     LinkDesc("l3", "l2", "revolute", AxY, V3(0, 1, 0), Eye3, 2, V3(0, 0, 1), <<1, 2, 1>>, 2) >>

(* a serial chain whose first joint is fixed *)
ChainFixedFirst ==
  << BaseLink,
     LinkDesc("l1", "base", "fixed", Zero3, V3(0, 1, 0), z_rot(1), 1, V3(0, 0, 1), <<1, 1, 1>>, 0),
     LinkDesc("l2", "l1", "revolute", AxX, V3(1, 0, 0), Eye3, 1, V3(0, 1, 0), <<1, 1, 1>>, 1),
     LinkDesc("l3", "l2", "revolute", AxNegZ, V3(0, 0, 1), Eye3, 1, V3(1, 0, 0), <<2, 1, 1>>, 0) >>

(* a branching tree: l2 and l3 both hang off l1 *)
Branching ==
  << BaseLink,
     LinkDesc("l1", "base", "revolute", AxZ, V3(1, 0, 0), Eye3, 1, V3(1, 0, 0), <<1, 1, 1>>, 1),
     LinkDesc("l2", "l1", "revolute", AxX, V3(0, 1, 0), Eye3, 1, V3(0, 0, 1), <<1, 1, 1>>, 0),
     LinkDesc("l3", "l1", "fixed", Zero3, V3(0, 0, 1), y_rot(1), 1, V3(0, 1, 0), <<1, 1, 2>>, 0) >>

(* a serial chain that ends in a massless link on a controlled joint *)
ChainMasslessTip ==
  << BaseLink,
     LinkDesc("l1", "base", "revolute", AxZ, V3(0, 0, 1), Eye3, 1, V3(1, 0, 0), <<1, 1, 1>>, 1),
     LinkDesc("l2", "l1", "revolute", AxY, V3(1, 0, 0), Eye3, 0, Zero3, <<0, 0, 0>>, 1) >>

(* a two-joint chain whose second joint turns about the unit axis           *)
(* (3/5, 4/5, 0)                                                            *)
ChainSkewAxis ==
  << BaseLink,
     LinkDesc("l1", "base", "revolute", AxZ, V3(0, 0, 1), Eye3, 1, V3(1, 0, 0), <<1, 1, 1>>, 1),
     LinkDesc("l2", "l1", "revolute", <<<<3, 5>>, <<4, 5>>, NZero>>, V3(1, 0, 0), Eye3,
              1, V3(0, 0, 1), <<1, 1, 1>>, 2) >>

(* a description that lists a link before its parent *)
ChildFirst ==
  << BaseLink,
     LinkDesc("l2", "l1", "revolute", AxX, V3(1, 0, 0), Eye3, 1, V3(0, 1, 0), <<1, 1, 1>>, 1),
     LinkDesc("l1", "base", "revolute", AxZ, V3(0, 0, 1), Eye3, 1, V3(1, 0, 0), <<1, 1, 1>>, 1) >>

(* a description that names a parent that is no link *)
DanglingParent ==
  << BaseLink,
     LinkDesc("l1", "ghost", "revolute", AxZ, V3(0, 0, 1), Eye3, 1, V3(1, 0, 0), <<1, 1, 1>>, 1) >>

(* a two-joint serial chain *)
Chain2 ==
  << BaseLink,
     LinkDesc("l1", "base", "revolute", AxZ, V3(0, 0, 1), Eye3, 1, V3(1, 0, 0), <<1, 1, 1>>, 1),
     LinkDesc("l2", "l1", "revolute", AxY, V3(1, 0, 0), Eye3, 1, V3(0, 0, 1), <<1, 1, 1>>, 2) >>

-----------------------------------------------------------------------------
(* State *)

VARIABLES
  links,               \* the loader's ordered link list (_urdf_model)
  bodies,              \* _bodies: one record per link, link i at position i + 1
  n_dofs,              \* _n_dofs
  controlled_joints,   \* _controlled_joints: link indices, in DOF order
  name_to_idx_map,     \* _name_to_idx_map
  call,                \* the last public call: its name and arguments
  ret,                 \* what that call returned
  err,                 \* "" or the error that call ended in
  rbw,                 \* <<link, field>> that call read before writing it
  stale,               \* those of rbw that an earlier call had written
  dirty,               \* <<link, field>> written by some call since construction
  ik                   \* the locals of a running compute_inverse_kinematics_jac

vars == <<links, bodies, n_dofs, controlled_joints, name_to_idx_map,
          call, ret, err, rbw, stale, dirty, ik>>

NumLinks == Len(links)
LinkNames == {links[k].name : k \in 1 .. NumLinks}

get_name_of_parent_body(name) ==
  links[CHOOSE k \in 1 .. NumLinks : links[k].name = name].parent

get_link_names == [k \in 1 .. NumLinks |-> bodies[k].name]

ParentIdx(i) == name_to_idx_map[get_name_of_parent_body(bodies[i + 1].name)]

(* the value of a per-call field that no call has written and construction  *)
(* does not set (the attribute does not exist)                              *)
Unset == <<>>

-----------------------------------------------------------------------------
(* Execution of one call.  A call threads a record m through its            *)
(* statements: the bodies, the fields written so far (wr), the fields read  *)
(* before this call wrote them (rbw), and the error that ended it, if any.  *)

MStart(b) == [bodies |-> b, wr |-> {}, rbw |-> {}, err |-> "", ret |-> [kind |-> "none"],
              f |-> <<>>]

Rd(m, i, fs) == [m EXCEPT !.rbw = @ \cup ({<<i, f>> : f \in fs} \ m.wr)]

Wr(m, i, f, v) == [m EXCEPT !.bodies[i + 1][f] = v, !.wr = @ \cup {<<i, f>>}]

Raise(m, e) == [m EXCEPT !.err = e]

Col(t, i) == BMap(LAMBDA row : row[i + 1], t)
zeros_col(batch_size) == BRepeat(NZero, batch_size)

-----------------------------------------------------------------------------
(* DifferentiableRigidBody *)

JointRot(joint_axis, k) ==
  IF joint_axis[1] # NZero THEN x_rot(Sgn(joint_axis[1][1]) * k)
  ELSE IF joint_axis[2] # NZero THEN y_rot(Sgn(joint_axis[2][1]) * k)
  ELSE IF joint_axis[3] # NZero THEN z_rot(Sgn(joint_axis[3][1]) * k)
  ELSE Eye3

(* the joint frame of a revolute joint turned by q quarter turns about its  *)
(* axis (a fixed joint has a zero axis and keeps its offset)                *)
JointPoseRow(body, q) == CT(MMul(body.rot, JointRot(body.joint_axis, IntOf(q))), body.trans)

JointMotionRow(body, qd) == SV(Zero3, VScale(qd, body.joint_axis))

update_joint_state(m, i, q, qd) ==
  LET body == m.bodies[i + 1]
      m1 == Wr(m, i, "joint_pose", BMap(LAMBDA x : JointPoseRow(body, x), q))
  IN  Wr(m1, i, "joint_vel", BMap(LAMBDA x : JointMotionRow(body, x), qd))

update_joint_acc(m, i, qdd) ==
  Wr(m, i, "joint_acc", BMap(LAMBDA x : JointMotionRow(m.bodies[i + 1], x), qdd))

get_joint_damping_const(body) == body.joint_damping

(* the body built from link i of the description; joint_idx is set by the   *)
(* model's constructor (-1 stands for None); modules holds the parameters   *)
(* that a learnable module has replaced                                     *)
NewBody(link, i, joint_idx) ==
  [ name |-> link.name, joint_id |-> i, joint_idx |-> joint_idx,
    joint_type |-> link.joint_type, joint_axis |-> link.joint_axis,
    trans |-> link.trans, rot |-> link.rot,
    inertia |-> link.inertia, joint_damping |-> link.joint_damping,
    modules |-> <<>>,
    joint_pose |-> <<JointPoseRow(link, NZero)>>,
    joint_vel |-> <<SVZero>>, joint_acc |-> <<SVZero>>,
    pose |-> <<CTIdentity>>, vel |-> <<SVZero>>, acc |-> <<SVZero>>,
    force |-> <<SVZero>>,
    c |-> Unset, pA |-> Unset, IA |-> Unset, S |-> Unset, U |-> Unset,
    d |-> Unset, u |-> Unset ]

-----------------------------------------------------------------------------
(* DifferentiableRobotModel.__init__ *)

RECURSIVE CountControlled(_, _)
CountControlled(ls, k) ==
  IF k = 0 THEN 0
  ELSE CountControlled(ls, k - 1) + (IF ls[k].joint_type # "fixed" THEN 1 ELSE 0)

RECURSIVE InitBodies(_, _)
InitBodies(ls, k) ==
  IF k = 0 THEN <<>>
  ELSE Append(InitBodies(ls, k - 1),
              NewBody(ls[k], k - 1,
                      IF ls[k].joint_type # "fixed" THEN CountControlled(ls, k - 1) ELSE -1))

RECURSIVE InitControlled(_, _)
InitControlled(ls, k) ==
  IF k = 0 THEN <<>>
  ELSE IF ls[k].joint_type # "fixed" THEN Append(InitControlled(ls, k - 1), k - 1)
  ELSE InitControlled(ls, k - 1)

(* a later link of the same name overwrites the entry *)
InitNameMap(ls) ==
  [nm \in {ls[k].name : k \in 1 .. Len(ls)} |->
     (CHOOSE k \in 1 .. Len(ls) :
        ls[k].name = nm /\ \A k2 \in 1 .. Len(ls) : ls[k2].name = nm => k2 <= k) - 1]

(* the parent of every link but the first is looked up in the name map *)
ParentsKnown(ls) ==
  \A k \in 2 .. Len(ls) : \E k2 \in 1 .. Len(ls) : ls[k2].name = ls[k].parent

Construct(ls) ==
  /\ links = ls
  /\ bodies = InitBodies(ls, Len(ls))
  /\ n_dofs = CountControlled(ls, Len(ls))
  /\ controlled_joints = InitControlled(ls, Len(ls))
  /\ name_to_idx_map = InitNameMap(ls)
  /\ call = [fn |-> "__init__"]
  /\ ret = [kind |-> "none"]
  /\ err = IF ParentsKnown(ls) THEN "" ELSE "KeyError"
  /\ rbw = {}
  /\ stale = {}
  /\ dirty = {}
  /\ ik = [pc |-> "idle"]

(* the constructor returned a model: no call is possible on one it raised on *)
Constructed == ~(call.fn = "__init__" /\ err # "")

-----------------------------------------------------------------------------
(* tensor_check.  A tensor argument is [ndim, rows]: ndim 1 is one          *)
(* unbatched row, ndim 2 a batch of rows.  A returned tensor is             *)
(* [batched, rows]; batched = FALSE means the leading axis was dropped.     *)

Arg1(row) == [ndim |-> 1, rows |-> <<row>>]
Arg2(rows) == [ndim |-> 2, rows |-> rows]

BatchShape(t) == IF t.ndim = 1 THEN <<>> ELSE <<Len(t.rows)>>

(* preprocess: every tensor argument must have the batch shape of the first *)
preprocess_ok(ts) == \A k \in 1 .. Len(ts) : BatchShape(ts[k]) = BatchShape(ts[1])

(* batch_info after preprocessing: was the input a single unbatched row? *)
Unbatched(ts) == Len(ts) > 0 /\ BatchShape(ts[1]) = <<>>

Tensor(rows) == [kind |-> "tensor", batched |-> TRUE, rows |-> rows]
Tuple2(a, b) == [kind |-> "tuple", items |-> <<a, b>>]
Dict(f) == [kind |-> "dict", items |-> f]
None == [kind |-> "none"]

postprocess(arg, unbatched) ==
  IF arg.kind = "tensor" /\ unbatched
  THEN [kind |-> "tensor", batched |-> FALSE, rows |-> <<arg.rows[1]>>]
  ELSE arg

wrapper_return(r, unbatched) ==
  IF r.kind = "tensor" THEN postprocess(r, unbatched)
  ELSE IF r.kind = "tuple"
       THEN Tuple2(postprocess(r.items[1], unbatched), postprocess(r.items[2], unbatched))
  ELSE r

RowLen(t) == Len(t[1])
zeros_like(t) == BMap(LAMBDA row : BMap(LAMBDA x : NZero, row), t)

-----------------------------------------------------------------------------
(* update_kinematic_state *)

(* the links before the first controlled joint left as they are *)
UKS_fixed_prefix_skipped(m, i, batch_size) == m

RECURSIVE UKS_fixed_prefix(_, _, _)
UKS_fixed_prefix(m, i, batch_size) ==
  IF i >= controlled_joints[1] THEN m
  ELSE UKS_fixed_prefix(
         update_joint_state(m, i, zeros_col(batch_size), zeros_col(batch_size)),
         i + 1, batch_size)

(* the controlled joints fed with the columns in reverse order *)
RECURSIVE UKS_controlled_reversed(_, _, _, _)
UKS_controlled_reversed(m, i, q, qd) ==
  IF i >= RowLen(q) THEN m
  ELSE UKS_controlled_reversed(
         update_joint_state(m, controlled_joints[i + 1], Col(q, RowLen(q) - 1 - i),
                            Col(qd, RowLen(q) - 1 - i)),
         i + 1, q, qd)

RECURSIVE UKS_controlled(_, _, _, _)
UKS_controlled(m, i, q, qd) ==
  IF i >= RowLen(q) THEN m
  ELSE UKS_controlled(
         update_joint_state(m, controlled_joints[i + 1], Col(q, i), Col(qd, i)),
         i + 1, q, qd)

(* the sweep step with the pose composed in the wrong order *)
UKS_body_swapped(m, i) ==
  LET parent == ParentIdx(i)
      childToParentT == m.bodies[i + 1].joint_pose
      m3 == Wr(m, i, "pose",
               BMap2(CT_multiply_transform, childToParentT, m.bodies[parent + 1].pose))
  IN  Wr(m3, i, "vel", m.bodies[i + 1].joint_vel)

UKS_body(m, i) ==
  LET parent == ParentIdx(i)
      m1 == Rd(m, i, {"joint_pose"})
      childToParentT == m.bodies[i + 1].joint_pose
      parentToChildT == BMap(CT_inverse, childToParentT)
      m2 == Rd(m1, parent, {"pose"})
      m3 == Wr(m2, i, "pose",
               BMap2(CT_multiply_transform, m.bodies[parent + 1].pose, childToParentT))
      m4 == Rd(m3, parent, {"vel"})
      new_vel == BMap2(motion_transform, m.bodies[parent + 1].vel, parentToChildT)
      m5 == Rd(m4, i, {"joint_vel"})
  IN  Wr(m5, i, "vel", BMap2(add_motion_vec, m.bodies[i + 1].joint_vel, new_vel))

RECURSIVE UKS_propagate(_, _)
UKS_propagate(m, i) ==
  IF i >= NumLinks THEN m ELSE UKS_propagate(UKS_body(m, i), i + 1)

update_kinematic_state(m, q, qd) ==
  IF RowLen(q) # n_dofs \/ RowLen(qd) # n_dofs THEN Raise(m, "AssertionError")
  ELSE IF n_dofs = 0 THEN Raise(m, "IndexError")
  ELSE LET batch_size == Len(q)
           m1 == UKS_fixed_prefix(m, 0, batch_size)
           m2 == UKS_controlled(m1, 0, q, qd)
           m3 == Wr(m2, 0, "vel", BRepeat(SVZero, batch_size))
       IN  UKS_propagate(m3, 1)

-----------------------------------------------------------------------------
(* compute_forward_kinematics_all_links, compute_forward_kinematics *)

PoseResult(pose) ==
  Tuple2(Tensor(BMap(LAMBDA T : T.trans, pose)), Tensor(BMap(CT_get_quaternion, pose)))

(* DifferentiableRigidBody.forward_kinematics(q_dict): the name-keyed       *)
(* recursion from the root over the children lists                          *)
Children(i) == {j \in 1 .. (NumLinks - 1) : ParentIdx(j) = i}

RecJointPose(b, i, q_dict) ==
  IF b[i + 1].name \in DOMAIN q_dict
  THEN BMap(LAMBDA x : JointPoseRow(b[i + 1], x), q_dict[b[i + 1].name])
  ELSE <<JointPoseRow(b[i + 1], NZero)>>

RECURSIVE forward_kinematics(_, _, _, _)
RECURSIVE forward_kinematics_children(_, _, _, _, _)
forward_kinematics(b, i, pose, q_dict) ==
  forward_kinematics_children(b, Children(i), pose, q_dict, (b[i + 1].name :> pose))

forward_kinematics_children(b, cs, pose, q_dict, acc) ==
  IF cs = {} THEN acc
  ELSE LET child == CHOOSE x \in cs : \A y \in cs : x <= y
           child_pose == BMap2(CT_multiply_transform, pose, RecJointPose(b, child, q_dict))
       IN  forward_kinematics_children(b, cs \ {child}, pose, q_dict,
                                       forward_kinematics(b, child, child_pose, q_dict) @@ acc)

RECURSIVE ReadPoses(_, _)
ReadPoses(m, k) == IF k = 0 THEN m ELSE Rd(ReadPoses(m, k - 1), name_to_idx_map[m.bodies[k].name], {"pose"})

QDict(b, q) ==
  [nm \in {b[controlled_joints[k] + 1].name : k \in 1 .. n_dofs} |->
     Col(q, (CHOOSE k \in 1 .. n_dofs :
               /\ b[controlled_joints[k] + 1].name = nm
               /\ \A k2 \in 1 .. n_dofs : b[controlled_joints[k2] + 1].name = nm => k2 <= k) - 1)]

PoseDictResult(m, pose_dict) ==
  [m EXCEPT !.ret = Dict([link \in DOMAIN pose_dict |-> PoseResult(pose_dict[link])])]

(* the poses the sweep left in the bodies, by link name *)
SweepResult(m1) ==
  IF m1.err # "" THEN m1
  ELSE [ReadPoses(m1, NumLinks) EXCEPT !.ret =
          Dict([link \in {m1.bodies[k].name : k \in 1 .. NumLinks} |->
                  PoseResult(m1.bodies[name_to_idx_map[link] + 1].pose)])]

compute_forward_kinematics_all_links(m, q, recursive) ==
  IF recursive /\ RowLen(q) < n_dofs THEN Raise(m, "IndexError")
  ELSE IF recursive
  THEN PoseDictResult(m, forward_kinematics(m.bodies, 0, <<CTIdentity>>, QDict(m.bodies, q)))
  ELSE SweepResult(update_kinematic_state(m, q, zeros_like(q)))

(* compute_forward_kinematics_all_links(q)[link_name] *)
FK_item(m1, link_name) ==
  IF m1.err # "" THEN m1
  ELSE IF link_name \notin DOMAIN m1.ret.items
       THEN [Raise(m1, "KeyError") EXCEPT !.ret = None]
  ELSE [m1 EXCEPT !.ret = m1.ret.items[link_name]]

(* the pose of the named link after update_kinematic_state *)
FK_pose(m1, link_name) ==
  IF m1.err # "" THEN m1
  ELSE IF link_name \notin DOMAIN name_to_idx_map THEN Raise(m1, "KeyError")
  ELSE [Rd(m1, name_to_idx_map[link_name], {"pose"}) EXCEPT
          !.ret = PoseResult(m1.bodies[name_to_idx_map[link_name] + 1].pose)]

(* the pose read without updating the kinematic state *)
compute_forward_kinematics_no_update(m, q, link_name, recursive) == FK_pose(m, link_name)

compute_forward_kinematics(m, q, link_name, recursive) ==
  IF recursive
  THEN FK_item(compute_forward_kinematics_all_links(m, q, FALSE), link_name)
  ELSE FK_pose(update_kinematic_state(m, q, zeros_like(q)), link_name)

-----------------------------------------------------------------------------
(* compute_endeffector_jacobian, compute_endeffector_jacobian_all_links.    *)
(* A Jacobian row (one batch element) is the tuple of its n_dofs columns,   *)
(* each a 3-vector; the all-links Jacobian row is one such tuple per link.  *)

RECURSIVE ZeroCols(_)
ZeroCols(n) == IF n = 0 THEN <<>> ELSE Append(ZeroCols(n - 1), Zero3)

RECURSIVE ZeroLinkCols(_, _)
ZeroLinkCols(num_links, n) ==
  IF num_links = 0 THEN <<>> ELSE Append(ZeroLinkCols(num_links - 1, n), ZeroCols(n))

(* list.index: the position (from 0) of the first occurrence *)
index(list, x) ==
  (CHOOSE k \in 1 .. Len(list) : list[k] = x /\ \A k2 \in 1 .. (k - 1) : list[k2] # x) - 1

IsIn(x, list) == \E k \in 1 .. Len(list) : list[k] = x

translation(pose) == BMap(LAMBDA T : T.trans, pose)

(* pose.rotation() @ axis.squeeze() *)
WorldAxis(pose, axis) == BMap(LAMBDA T : MVec(T.rot, axis), pose)

(* the column write with the column index ignored *)
SetColFirst(jac, i, vals) == BMap2(LAMBDA row, v : [row EXCEPT ![1] = v], jac, vals)

SetCol(jac, i, vals) == BMap2(LAMBDA row, v : [row EXCEPT ![i + 1] = v], jac, vals)

RECURSIVE JacWalk(_, _, _, _)
JacWalk(w, link_name, joint_id, p_e) ==
  IF link_name = w.m.bodies[1].name THEN w
  ELSE LET parent_name == get_name_of_parent_body(link_name)
           next_id == w.m.bodies[name_to_idx_map[parent_name] + 1].joint_id
       IN  IF IsIn(joint_id, controlled_joints)
           THEN LET i == index(controlled_joints, joint_id)
                    idx == joint_id
                    m1 == Rd(w.m, idx, {"pose"})
                    pose == w.m.bodies[idx + 1].pose
                    axis == w.m.bodies[idx + 1].joint_axis
                    p_i == translation(pose)
                    z_i == WorldAxis(pose, axis)
                    lin == BMap2(cross_product, z_i, BMap2(VSub, p_e, p_i))
                IN  JacWalk([m |-> m1, lin_jac |-> SetCol(w.lin_jac, i, lin),
                             ang_jac |-> SetCol(w.ang_jac, i, z_i)],
                            parent_name, next_id, p_e)
           ELSE JacWalk(w, parent_name, next_id, p_e)

JacResult(w) == [w.m EXCEPT !.ret = Tuple2(Tensor(w.lin_jac), Tensor(w.ang_jac))]

Jac_columns(m1, link_name, batch_size) ==
  IF m1.err # "" THEN m1
  ELSE LET e == name_to_idx_map[link_name]
           zeros == BRepeat(ZeroCols(n_dofs), batch_size)
       IN  JacResult(JacWalk([m |-> Rd(m1, e, {"pose"}), lin_jac |-> zeros, ang_jac |-> zeros],
                             link_name, m1.bodies[e + 1].joint_id,
                             translation(m1.bodies[e + 1].pose)))

compute_endeffector_jacobian(m, q, link_name) ==
  Jac_columns(compute_forward_kinematics(m, q, link_name, FALSE), link_name, Len(q))

(* lin_jac[:, idx+1:, :, i] = cross(z_i, p_es[:, idx:] - p_i) and            *)
(* ang_jac[:, idx:, :, i] = z_i for one batch element; p_es[k] is the        *)
(* position of link k (link_names[1:], so link k sits at p_es index k - 1)   *)
RECURSIVE SetLinCols(_, _, _, _, _, _)
SetLinCols(row, L, i, z, p_es, p_i) ==
  IF L > Len(row) THEN row
  ELSE SetLinCols([row EXCEPT ![L][i + 1] = cross_product(z, VSub(p_es[L - 1], p_i))],
                  L + 1, i, z, p_es, p_i)

RECURSIVE SetAngCols(_, _, _, _)
SetAngCols(row, L, i, z) ==
  IF L > Len(row) THEN row
  ELSE SetAngCols([row EXCEPT ![L][i + 1] = z], L + 1, i, z)

RECURSIVE StackPositions(_, _, _)
StackPositions(b, k, r) ==
  IF k < 2 THEN <<>> ELSE Append(StackPositions(b, k - 1, r), BAt(b[k].pose, r).trans)

BatchIdx(batch_size) ==
  CASE batch_size = 0 -> <<>>
    [] batch_size = 1 -> <<1>>
    [] batch_size = 2 -> <<1, 2>>
    [] batch_size = 3 -> <<1, 2, 3>>
    [] batch_size = 4 -> <<1, 2, 3, 4>>

RECURSIVE ReadPosesFrom(_, _)
ReadPosesFrom(m, k) == IF k < 1 THEN m ELSE Rd(ReadPosesFrom(m, k - 1), k, {"pose"})

RECURSIVE JacWalkAll(_, _, _, _)
JacWalkAll(w, link_name, joint_id, p_es) ==
  IF link_name = w.m.bodies[1].name THEN w
  ELSE LET parent_name == get_name_of_parent_body(link_name)
           next_id == w.m.bodies[name_to_idx_map[parent_name] + 1].joint_id
       IN  IF IsIn(joint_id, controlled_joints)
           THEN LET i == index(controlled_joints, joint_id)
                    idx == joint_id
                    m1 == Rd(w.m, idx, {"pose"})
                    pose == w.m.bodies[idx + 1].pose
                    axis == w.m.bodies[idx + 1].joint_axis
                    p_i == translation(pose)
                    z_i == WorldAxis(pose, axis)
                    rs == BatchIdx(Len(w.lin_jac))
                IN  JacWalkAll(
                      [m |-> m1,
                       lin_jac |-> BMap(LAMBDA r : SetLinCols(w.lin_jac[r], idx + 2, i,
                                                              BAt(z_i, r), p_es[r], BAt(p_i, r)), rs),
                       ang_jac |-> BMap(LAMBDA r : SetAngCols(w.ang_jac[r], idx + 1, i,
                                                              BAt(z_i, r)), rs)],
                      parent_name, next_id, p_es)
           ELSE JacWalkAll(w, parent_name, next_id, p_es)

Stack_p_es(b, batch_size) ==
  BMap(LAMBDA r : StackPositions(b, Len(b), r), BatchIdx(batch_size))

JacAll_columns(m1, batch_size) ==
  IF m1.err # "" THEN m1
  ELSE LET num_links == Len(m1.bodies)
           zeros == BRepeat(ZeroLinkCols(num_links, n_dofs), batch_size)
       IN  JacResult(JacWalkAll([m |-> ReadPosesFrom(m1, num_links - 1),
                                 lin_jac |-> zeros, ang_jac |-> zeros],
                                m1.bodies[num_links].name, m1.bodies[num_links].joint_id,
                                Stack_p_es(m1.bodies, batch_size)))

compute_endeffector_jacobian_all_links(m, q) ==
  JacAll_columns(compute_forward_kinematics(m, q, m.bodies[Len(m.bodies)].name, FALSE), Len(q))

-----------------------------------------------------------------------------
(* iterative_newton_euler, compute_inverse_dynamics *)

GravityNum == 981      \* 9.81 as GravityNum / GravityDen
GravityDen == 100

base_acc_of(batch_size, include_gravity) ==
  BRepeat(SV(<<NZero, NZero, IF include_gravity THEN NNorm(GravityNum, GravityDen) ELSE NZero>>,
             Zero3), batch_size)

NE_forward_body(m, i) ==
  LET parent == ParentIdx(i)
      body == m.bodies[i + 1]
      m1 == Rd(Rd(m, i, {"joint_pose"}), parent, {"acc"})
      inv_pose == BMap(CT_inverse, body.joint_pose)
      acc_parent_body == BMap2(motion_transform, m.bodies[parent + 1].acc, inv_pose)
      m2 == Rd(m1, i, {"vel", "joint_vel", "joint_acc"})
      tmp == BMap2(cross_motion_vec, body.vel, body.joint_vel)
  IN  Wr(m2, i, "acc",
         BMap2(add_motion_vec, BMap2(add_motion_vec, acc_parent_body, body.joint_acc), tmp))

RECURSIVE NE_forward(_, _)
NE_forward(m, i) == IF i >= NumLinks THEN m ELSE NE_forward(NE_forward_body(m, i), i + 1)

(* the forces of the previous call kept *)
NE_keep_forces(m, i) == m

RECURSIVE NE_reset_forces(_, _)
NE_reset_forces(m, i) ==
  IF i >= NumLinks THEN m ELSE NE_reset_forces(Wr(m, i, "force", <<SVZero>>), i + 1)

NE_backward_body(m, i) ==
  LET parent == ParentIdx(i)
      body == m.bodies[i + 1]
      m1 == Rd(m, i, {"joint_pose", "acc", "vel", "force"})
      icxacc == BMap(LAMBDA a : multiply_motion_vec(body.inertia, a), body.acc)
      icxvel == BMap(LAMBDA v : multiply_motion_vec(body.inertia, v), body.vel)
      tmp_force == BMap2(cross_force_vec, body.vel, icxvel)
      force == BMap2(add_force_vec, BMap2(add_force_vec, body.force, icxacc), tmp_force)
      m2 == Wr(m1, i, "force", force)
      backprop_force == BMap2(force_transform, force, body.joint_pose)
      m3 == Rd(m2, parent, {"force"})
  IN  Wr(m3, parent, "force", BMap2(add_force_vec, m.bodies[parent + 1].force, backprop_force))

RECURSIVE NE_backward(_, _)
NE_backward(m, i) == IF i < 1 THEN m ELSE NE_backward(NE_backward_body(m, i), i - 1)

iterative_newton_euler(m, base_acc) ==
  NE_backward(NE_reset_forces(NE_forward(Wr(m, 0, "acc", base_acc), 1), 0), NumLinks - 1)

RECURSIVE ID_set_acc(_, _, _)
ID_set_acc(m, i, qdd_des) ==
  IF i >= n_dofs THEN m
  ELSE ID_set_acc(update_joint_acc(m, controlled_joints[i + 1], Col(qdd_des, i)), i + 1, qdd_des)

(* torch.where(axis)[0]: the positions (from 0) of the non-zero components *)
NonZeroIdx(axis) == {k \in 0 .. 2 : axis[k + 1] # NZero}

(* the force of joint i: sign(axis[axis_idx]) * force.ang[axis_idx] *)
ID_project(body) ==
  LET axis_idx == CHOOSE k \in NonZeroIdx(body.joint_axis) : TRUE
      rot_sign == N(Sgn(body.joint_axis[axis_idx + 1][1]))
  IN  BMap(LAMBDA fo : NMul(fo.ang[axis_idx + 1], rot_sign), body.force)

RECURSIVE ID_extract(_, _, _)
ID_extract(m, i, force) ==
  IF i >= n_dofs \/ m.err # "" THEN [m EXCEPT !.ret = Tensor(force)]
  ELSE LET idx == controlled_joints[i + 1]
           body == m.bodies[idx + 1]
       IN  IF Cardinality(NonZeroIdx(body.joint_axis)) # 1 THEN Raise(m, "ValueError")
           ELSE ID_extract(Rd(m, idx, {"force"}), i + 1,
                           BMap2(LAMBDA row, v : Append(row, v), force, ID_project(body)))

damping_const(b) ==
  CASE n_dofs = 0 -> <<>>
    [] n_dofs = 1 -> <<get_joint_damping_const(b[controlled_joints[1] + 1])>>
    [] n_dofs = 2 -> <<get_joint_damping_const(b[controlled_joints[1] + 1]),
                       get_joint_damping_const(b[controlled_joints[2] + 1])>>
    [] n_dofs = 3 -> <<get_joint_damping_const(b[controlled_joints[1] + 1]),
                       get_joint_damping_const(b[controlled_joints[2] + 1]),
                       get_joint_damping_const(b[controlled_joints[3] + 1])>>

(* elementwise a + s * (c * b) on rows of equal length *)
RowAxpy(a, s, c, b) ==
  CASE Len(a) = 0 -> <<>>
    [] Len(a) = 1 -> <<NAdd(a[1], NMul(s, NMul(c[1], b[1])))>>
    [] Len(a) = 2 -> <<NAdd(a[1], NMul(s, NMul(c[1], b[1]))), NAdd(a[2], NMul(s, NMul(c[2], b[2])))>>
    [] Len(a) = 3 -> <<NAdd(a[1], NMul(s, NMul(c[1], b[1]))), NAdd(a[2], NMul(s, NMul(c[2], b[2]))),
                       NAdd(a[3], NMul(s, NMul(c[3], b[3])))>>

(* force += damping_const.repeat(batch_size, 1) * qd *)
ID_damping(m4, qd, use_damping) ==
  IF m4.err # "" \/ ~use_damping THEN m4
  ELSE [m4 EXCEPT !.ret = Tensor(BMap2(LAMBDA row, v : RowAxpy(row, NOne, damping_const(m4.bodies), v),
                                       m4.ret.rows, qd))]

(* the part of compute_inverse_dynamics after update_kinematic_state *)
ID_sweeps(m1, qd, qdd_des, include_gravity, use_damping) ==
  IF m1.err # "" THEN m1
  ELSE ID_damping(ID_extract(iterative_newton_euler(ID_set_acc(m1, 0, qdd_des),
                                                    base_acc_of(Len(qdd_des), include_gravity)),
                             0, BRepeat(<<>>, Len(qdd_des))),
                  qd, use_damping)

compute_inverse_dynamics(m, q, qd, qdd_des, include_gravity, use_damping) ==
  IF RowLen(q) # n_dofs \/ RowLen(qd) # n_dofs \/ RowLen(qdd_des) # n_dofs
  THEN Raise(m, "AssertionError")
  ELSE ID_sweeps(update_kinematic_state(m, q, qd), qd, qdd_des, include_gravity, use_damping)

compute_non_linear_effects(m, q, qd, include_gravity, use_damping) ==
  compute_inverse_dynamics(m, q, qd, zeros_like(q), include_gravity, use_damping)

-----------------------------------------------------------------------------
(* compute_lagrangian_inertia_matrix *)

UnitRow(j, n) ==
  CASE n = 1 -> <<NOne>>
    [] n = 2 -> IF j = 0 THEN <<NOne, NZero>> ELSE <<NZero, NOne>>
    [] n = 3 -> IF j = 0 THEN <<NOne, NZero, NZero>>
                ELSE IF j = 1 THEN <<NZero, NOne, NZero>> ELSE <<NZero, NZero, NOne>>

RowSub(a, b) == RowAxpy(a, N(-1), BMap(LAMBDA x : NOne, a), b)

(* H so far is, per batch row, one tuple per matrix row; a column is        *)
(* appended to every matrix row                                             *)
AppendColumn(H, column) ==
  BMap2(LAMBDA Hr, c : BMap2(LAMBDA row, x : Append(row, x), Hr, c), H, column)

(* the column without the baseline subtracted *)
LIM_column_raw(H, m1, gravity_term) ==
  IF m1.err # "" THEN m1
  ELSE [m1 EXCEPT !.ret = Tensor(AppendColumn(H, m1.ret.rows))]

(* H[:, :, j] = compute_inverse_dynamics(q, 0, e_j) - gravity_term *)
LIM_column(H, m1, gravity_term) ==
  IF m1.err # "" THEN m1
  ELSE [m1 EXCEPT !.ret = Tensor(AppendColumn(H, BMap2(RowSub, m1.ret.rows, gravity_term)))]

RECURSIVE LIM_columns(_, _, _, _, _, _)
LIM_columns(m, j, q, gravity_term, include_gravity, use_damping) ==
  IF j >= n_dofs \/ m.err # "" THEN m
  ELSE LIM_columns(LIM_column(m.ret.rows,
                              compute_inverse_dynamics(m, q, zeros_like(q),
                                                       BRepeat(UnitRow(j, n_dofs), Len(q)),
                                                       include_gravity, use_damping),
                              gravity_term),
                   j + 1, q, gravity_term, include_gravity, use_damping)

LIM_start(m1, q, include_gravity, use_damping) ==
  IF m1.err # "" THEN m1
  ELSE LIM_columns([m1 EXCEPT !.ret = Tensor(BRepeat(BMap(LAMBDA x : <<>>, q[1]), Len(q)))],
                   0, q, m1.ret.rows, include_gravity, use_damping)

compute_lagrangian_inertia_matrix(m, q, include_gravity, use_damping) ==
  IF RowLen(q) # n_dofs THEN Raise(m, "AssertionError")
  ELSE LIM_start(IF include_gravity
                 THEN compute_inverse_dynamics(m, q, zeros_like(q), zeros_like(q),
                                               include_gravity, use_damping)
                 ELSE [m EXCEPT !.ret = Tensor(zeros_like(q))],
                 q, include_gravity, use_damping)

-----------------------------------------------------------------------------
(* compute_forward_dynamics (articulated body algorithm) *)

(* a / (d + 1e-37): the smoothing term is below the rounding of any d # 0   *)
(* the model reaches, so the quotient is a / d; with d = 0 the divisor is   *)
(* the smoothing term alone and the quotient is a times its (large, finite) *)
(* inverse                                                                  *)
SmoothingInverse == 1000000    \* stands for 1 / 1e-37

DivEps(a, d) == IF d # NZero THEN NDiv(a, d) ELSE NMul(a, N(SmoothingInverse))

ABA_init_body(m, i, batch_size) ==
  LET body == m.bodies[i + 1]
      m1 == Rd(m, i, {"vel", "joint_vel"})
      icxvel == BMap(LAMBDA v : multiply_motion_vec(body.inertia, v), body.vel)
      m2 == Wr(m1, i, "c", BMap2(cross_motion_vec, body.vel, body.joint_vel))
      m3 == Wr(m2, i, "pA", BMap2(cross_force_vec, body.vel, icxvel))
  IN  Wr(m3, i, "IA", BRepeat(get_spatial_mat(body.inertia), batch_size))

RECURSIVE ABA_init(_, _, _)
ABA_init(m, i, batch_size) ==
  IF i >= NumLinks THEN m ELSE ABA_init(ABA_init_body(m, i, batch_size), i + 1, batch_size)

ABA_to_parent(m, i) ==
  LET body == m.bodies[i + 1]
      parent == ParentIdx(i)
      m1 == Rd(m, i, {"U", "d", "c", "IA", "u", "pA", "joint_pose"})
      Ud == BMap2(LAMBDA U, d : SV(BMap(LAMBDA x : DivEps(x, d), U.lin),
                                   BMap(LAMBDA x : DivEps(x, d), U.ang)), body.U, body.d)
      IA == BMap2(M6Sub, body.IA, BMap2(M6Outer, body.U, Ud))
      tmps == BMap2(M6Vec, IA, body.c)
      ud == BMap2(DivEps, body.u, body.d)
      uu == BMap2(sv_multiply, body.U, ud)
      pa == BMap2(add_force_vec, BMap2(add_force_vec, body.pA, tmps), uu)
      transform_mat == BMap(CT_to_matrix, body.joint_pose)
      m2 == Rd(m1, parent, {"IA"})
      m3 == Wr(m2, parent, "IA",
               BMap2(M6Add, m.bodies[parent + 1].IA,
                     BMap2(M6Mul, BMap2(M6Mul, BMap(M6Transpose, transform_mat), IA),
                           transform_mat)))
      m4 == Rd(m3, parent, {"pA"})
  IN  Wr(m4, parent, "pA",
         BMap2(add_force_vec, m.bodies[parent + 1].pA,
               BMap2(force_transform, pa, body.joint_pose)))

ABA_backward_body(m, i, f, batch_size) ==
  LET body == m.bodies[i + 1]
      S == BRepeat(SV(Zero3, body.joint_axis), batch_size)
      m1 == Wr(m, i, "S", S)
      m2 == Rd(m1, i, {"IA"})
      U == BMap2(M6Vec, body.IA, S)
      m3 == Wr(m2, i, "U", U)
      m4 == Wr(m3, i, "d", BMap2(sv_dot, S, U))
      m5 == Rd(m4, i, {"pA"})
      pAS == BMap2(sv_dot, body.pA, S)
  IN  IF body.joint_idx # -1 /\ body.joint_idx >= RowLen(f) THEN Raise(m5, "IndexError")
      ELSE LET u == IF body.joint_idx # -1 THEN BMap2(NSub, Col(f, body.joint_idx), pAS)
                    ELSE BMap(NNeg, pAS)
               m6 == Wr(m5, i, "u", u)
           IN  IF ParentIdx(i) > 0 THEN ABA_to_parent(m6, i) ELSE m6

RECURSIVE ABA_backward(_, _, _, _)
ABA_backward(m, i, f, batch_size) ==
  IF i < 1 \/ m.err # "" THEN m
  ELSE ABA_backward(ABA_backward_body(m, i, f, batch_size), i - 1, f, batch_size)

SetEntry(t, i, vals) == BMap2(LAMBDA row, v : [row EXCEPT ![i + 1] = v], t, vals)

(* one step of the final sweep; w carries the call record and qdd *)
ABA_forward_body(w, i) ==
  LET m == w.m
      body == m.bodies[i + 1]
      parent == ParentIdx(i)
      m1 == Rd(Rd(Rd(m, i, {"joint_pose"}), parent, {"acc"}), i, {"c"})
      inv_pose == BMap(CT_inverse, body.joint_pose)
      acc_parent_body == BMap2(motion_transform, m.bodies[parent + 1].acc, inv_pose)
      acc == BMap2(add_motion_vec, acc_parent_body, body.c)
      m2 == Wr(m1, i, "acc", acc)
  IN  IF IsIn(i, controlled_joints)
      THEN LET joint_idx == index(controlled_joints, i)
               m3 == Rd(m2, i, {"d", "u", "U", "S"})
               qdd_i == BMap2(NMul, BMap(NInv, body.d),
                              BMap2(NSub, body.u, BMap2(sv_dot, body.U, acc)))
           IN  [m |-> Wr(m3, i, "acc",
                         BMap2(add_motion_vec, acc, BMap2(sv_multiply, body.S, qdd_i))),
                qdd |-> SetEntry(w.qdd, joint_idx, qdd_i)]
      ELSE [m |-> m2, qdd |-> w.qdd]

RECURSIVE ABA_forward(_, _)
ABA_forward(w, i) == IF i >= NumLinks THEN w ELSE ABA_forward(ABA_forward_body(w, i), i + 1)

(* f -= damping_const.repeat(batch_size, 1) * qd, in place on the caller's  *)
(* tensor: possible when the rows of f are as long as those of qd, or qd    *)
(* has one column                                                           *)
FD_damp_ok(f, qd) == RowLen(f) = RowLen(qd) \/ RowLen(qd) = 1

(* the applied force left as it is *)
FD_undamped(b, f, qd) == f

FD_damp(b, f, qd) ==
  IF RowLen(f) = RowLen(qd)
  THEN BMap2(LAMBDA row, v : RowAxpy(row, N(-1), damping_const(b), v), f, qd)
  ELSE BMap2(LAMBDA row, v : BMap(LAMBDA x : NSub(x, NMul(damping_const(b)[1], v[1])), row), f, qd)

FD_result(w) == [w.m EXCEPT !.ret = Tensor(w.qdd)]

(* the final sweep, from the base acceleration outwards *)
FD_forward(m3, q, include_gravity) ==
  IF m3.err # "" THEN m3
  ELSE FD_result(ABA_forward([m |-> Wr(m3, 0, "acc", base_acc_of(Len(q), include_gravity)),
                              qdd |-> zeros_like(q)], 1))

(* the part of compute_forward_dynamics after update_kinematic_state *)
FD_sweeps(m1, q, f, include_gravity) ==
  IF m1.err # "" THEN m1
  ELSE FD_forward(ABA_backward(ABA_init(Wr(m1, 0, "acc", base_acc_of(Len(q), include_gravity)),
                                        1, Len(q)),
                               NumLinks - 1, f, Len(q)),
                  q, include_gravity)

(* f here is the caller's tensor after the in-place damping *)
FD_damped(m, q, qd, f, include_gravity) ==
  FD_sweeps(update_kinematic_state([m EXCEPT !.f = f], q, qd), q, f, include_gravity)

compute_forward_dynamics(m, q, qd, f, include_gravity, use_damping) ==
  IF RowLen(q) # n_dofs \/ RowLen(qd) # n_dofs THEN Raise(m, "AssertionError")
  ELSE IF use_damping /\ ~FD_damp_ok(f, qd) THEN Raise(m, "RuntimeError")
  ELSE FD_damped(m, q, qd, IF use_damping THEN FD_damp(m.bodies, f, qd) ELSE f, include_gravity)

-----------------------------------------------------------------------------
(* Inputs of the public calls *)

MaxQ == 1          \* joint values range over 0 .. MaxQ quarter turns
MaxBatch == 2      \* batched inputs have 1 .. MaxBatch rows

(* the row of n joint values that starts at k quarter turns *)
RowFrom(k, n) ==
  CASE n = 0 -> <<>>
    [] n = 1 -> <<N(k)>>
    [] n = 2 -> <<N(k), N(k + 1)>>
    [] n = 3 -> <<N(k), N(k + 1), N(k + 2)>>

RowsOf(n) == {RowFrom(k, n) : k \in 0 .. MaxQ}

ZeroRow(n) == CASE n = 0 -> <<>> [] n = 1 -> <<NZero>> [] n = 2 -> <<NZero, NZero>>
                [] n = 3 -> <<NZero, NZero, NZero>> [] n = 4 -> <<NZero, NZero, NZero, NZero>>

ShiftRow(r) == BMap(LAMBDA x : NAdd(x, NOne), r)

(* the batch of B rows that starts at row r *)
BatchOf(r, B) ==
  CASE B = 1 -> <<r>>
    [] B = 2 -> <<r, ShiftRow(r)>>
    [] B = 3 -> <<r, ShiftRow(r), ShiftRow(ShiftRow(r))>>
    [] B = 4 -> <<r, ShiftRow(r), ShiftRow(ShiftRow(r)), ShiftRow(ShiftRow(ShiftRow(r)))>>

TensorsOf(n) ==
  {Arg1(r) : r \in RowsOf(n)} \cup {Arg2(BatchOf(r, B)) : r \in RowsOf(n), B \in 1 .. MaxBatch}

(* tensors whose rows do not have n entries *)
WrongTensorsOf(n) == {Arg1(ZeroRow(n + 1)), Arg2(BatchOf(ZeroRow(n - 1), MaxBatch))}

(* companions of q for a second tensor argument: same shape, other batch    *)
(* shape, other row length                                                  *)
SameShape(q) == {q, [q EXCEPT !.rows = zeros_like(q.rows)]}
OtherBatch(q) == {IF q.ndim = 1 THEN Arg2(q.rows) ELSE Arg1(q.rows[1])}
OtherLength(q) == {[q EXCEPT !.rows = BMap(LAMBDA r : Tail(r), q.rows)]}

(* argument pairs (q, qd): well-shaped ones, and ones with a shape mismatch *)
MatchedPairs(n) == UNION {{<<q, qd>> : qd \in SameShape(q)} : q \in TensorsOf(n)}
MismatchedPairs(n) ==
  {<<w, w>> : w \in WrongTensorsOf(n)}
    \cup UNION {{<<q, qd>> : qd \in OtherBatch(q) \cup OtherLength(q)} :
                q \in {Arg1(ZeroRow(n)), Arg2(BatchOf(ZeroRow(n), MaxBatch))}}

NameInputs == LinkNames \cup {"no_such_link"}

-----------------------------------------------------------------------------
(* A public call: the decorated function runs on the preprocessed           *)
(* arguments; what it leaves behind becomes the next state.                 *)

Checked(ts, m) == IF preprocess_ok(ts) THEN m ELSE Raise(MStart(bodies), "AssertionError")

(* what a finished call leaves behind *)
Effects(c, ts, m) ==
  /\ call' = c
  /\ bodies' = m.bodies
  /\ err' = m.err
  /\ ret' = IF m.err = "" THEN wrapper_return(m.ret, Unbatched(ts)) ELSE None
  /\ rbw' = m.rbw
  /\ stale' = m.rbw \cap dirty
  /\ dirty' = dirty \cup m.wr
  /\ UNCHANGED <<links, n_dofs, controlled_joints, name_to_idx_map>>

Return(c, ts, m) == Effects(c, ts, m) /\ UNCHANGED ik

UpdateKinematicState(A) ==
  \E a \in A :
    Return([fn |-> "update_kinematic_state", q |-> a[1], qd |-> a[2]], a,
           Checked(a, update_kinematic_state(MStart(bodies), a[1].rows, a[2].rows)))

ComputeForwardKinematicsAllLinks(Q) ==
  \E q \in Q, recursive \in BOOLEAN :
    Return([fn |-> "compute_forward_kinematics_all_links", q |-> q, recursive |-> recursive],
           <<q>>, compute_forward_kinematics_all_links(MStart(bodies), q.rows, recursive))

ComputeForwardKinematics(Q, names) ==
  \E q \in Q, link_name \in names, recursive \in BOOLEAN :
    Return([fn |-> "compute_forward_kinematics", q |-> q, link_name |-> link_name,
            recursive |-> recursive],
           <<q>>, compute_forward_kinematics(MStart(bodies), q.rows, link_name, recursive))

ComputeEndeffectorJacobian(Q, names) ==
  \E q \in Q, link_name \in names :
    Return([fn |-> "compute_endeffector_jacobian", q |-> q, link_name |-> link_name],
           <<q>>, compute_endeffector_jacobian(MStart(bodies), q.rows, link_name))

ComputeEndeffectorJacobianAllLinks(Q) ==
  \E q \in Q :
    Return([fn |-> "compute_endeffector_jacobian_all_links", q |-> q],
           <<q>>, compute_endeffector_jacobian_all_links(MStart(bodies), q.rows))

(* the tensor shaped like q whose entries are q's plus k *)
Like(q, k) == [q EXCEPT !.rows = BMap(LAMBDA r : BMap(LAMBDA x : NAdd(x, N(k)), r), q.rows)]
Zeros(q) == [q EXCEPT !.rows = zeros_like(q.rows)]

Flags == BOOLEAN \X BOOLEAN

ComputeInverseDynamics(A, F) ==
  \E a \in A, fl \in F :
    Return([fn |-> "compute_inverse_dynamics", q |-> a[1], qd |-> a[2], qdd_des |-> a[3],
            include_gravity |-> fl[1], use_damping |-> fl[2]],
           a,
           Checked(a, compute_inverse_dynamics(MStart(bodies), a[1].rows, a[2].rows, a[3].rows,
                                               fl[1], fl[2])))

ComputeNonLinearEffects(A, F) ==
  \E a \in A, fl \in F :
    Return([fn |-> "compute_non_linear_effects", q |-> a[1], qd |-> a[2],
            include_gravity |-> fl[1], use_damping |-> fl[2]],
           a,
           Checked(a, compute_non_linear_effects(MStart(bodies), a[1].rows, a[2].rows,
                                                 fl[1], fl[2])))

ComputeLagrangianInertiaMatrix(Q, F) ==
  \E q \in Q, fl \in F :
    Return([fn |-> "compute_lagrangian_inertia_matrix", q |-> q,
            include_gravity |-> fl[1], use_damping |-> fl[2]],
           <<q>>,
           compute_lagrangian_inertia_matrix(MStart(bodies), q.rows, fl[1], fl[2]))

(* the applied force f is the caller's tensor: the call record keeps what   *)
(* it holds after the call (f_after)                                        *)
ReturnFD(c, ts, m) ==
  Return([c EXCEPT !.f_after = IF m.f = <<>> THEN c.f ELSE [c.f EXCEPT !.rows = m.f]], ts, m)

ComputeForwardDynamics(A, F) ==
  \E a \in A, fl \in F :
      ReturnFD([fn |-> "compute_forward_dynamics", q |-> a[1], qd |-> a[2], f |-> a[3],
                include_gravity |-> fl[1], use_damping |-> fl[2], f_after |-> a[3]],
               a,
               Checked(a, compute_forward_dynamics(MStart(bodies), a[1].rows, a[2].rows, a[3].rows,
                                                   fl[1], fl[2])))

(* the kinematic calls, on each robot *)
KinRobots == {ChainFixedAfter, ChainFixedFirst, Branching}

InitKin == \E ls \in KinRobots : Construct(ls)

NextKin ==
  \/ UpdateKinematicState(MatchedPairs(n_dofs) \cup MismatchedPairs(n_dofs))
  \/ ComputeForwardKinematicsAllLinks(TensorsOf(n_dofs))
  \/ ComputeForwardKinematics(TensorsOf(n_dofs), NameInputs)
  \/ ComputeEndeffectorJacobian(TensorsOf(n_dofs), NameInputs)
  \/ ComputeEndeffectorJacobianAllLinks(TensorsOf(n_dofs))

SpecKin == InitKin /\ [][NextKin]_vars

-----------------------------------------------------------------------------
(* Properties of the kinematic calls *)

LinkIndex(name) == (CHOOSE k \in 1 .. NumLinks : links[k].name = name) - 1

(* link j is the link e or one of its ancestors below the base *)
RECURSIVE OnChain(_, _)
OnChain(j, e) ==
  IF e = 0 THEN FALSE ELSE j = e \/ OnChain(j, LinkIndex(links[e + 1].parent))

JacobianReturned == call.fn = "compute_endeffector_jacobian" /\ err = ""

(* C3: in the Jacobian of a target link, the column of controlled joint J   *)
(* holds the joint's world axis (angular) and axis x (target position -     *)
(* joint position) (linear) if J's link is the target or one of its         *)
(* ancestors, and is zero otherwise; for the base as target all is zero.    *)
C3_JacobianColumns ==
  JacobianReturned =>
    LET e == LinkIndex(call.link_name)
        lin_jac == ret.items[1].rows
        ang_jac == ret.items[2].rows
    IN  \A r \in 1 .. Len(lin_jac) : \A J \in 1 .. n_dofs :
          LET j == controlled_joints[J]
              T == BAt(bodies[j + 1].pose, r)
              z == MVec(T.rot, links[j + 1].joint_axis)
              p_e == BAt(bodies[e + 1].pose, r).trans
          IN  IF OnChain(j, e)
              THEN /\ ang_jac[r][J] = z
                   /\ lin_jac[r][J] = cross_product(z, VSub(p_e, T.trans))
              ELSE /\ ang_jac[r][J] = Zero3
                   /\ lin_jac[r][J] = Zero3

(* a batched Jacobian with a written non-zero column beside a zero column *)
C3_Witness ==
  /\ JacobianReturned
  /\ call.q.ndim = 2 /\ Len(call.q.rows) > 1
  /\ \E J \in 1 .. n_dofs : /\ OnChain(controlled_joints[J], LinkIndex(call.link_name))
                            /\ ret.items[1].rows[2][J] # Zero3
                            /\ ret.items[2].rows[2][J] # Zero3
  /\ \E J \in 1 .. n_dofs : ~OnChain(controlled_joints[J], LinkIndex(call.link_name))

(* C2: every (link, joint) entry of the all-links Jacobian equals the       *)
(* joint's column of that link's own Jacobian, linear and angular.          *)
C2_AllLinksEqualsPerLink ==
  (call.fn = "compute_endeffector_jacobian_all_links" /\ err = "") =>
    \A L \in 1 .. NumLinks :
      LET one == compute_endeffector_jacobian(MStart(bodies), call.q.rows, links[L].name).ret
      IN  \A r \in 1 .. Len(call.q.rows) : \A J \in 1 .. n_dofs :
            /\ ret.items[1].rows[r][L][J] = one.items[1].rows[r][J]
            /\ ret.items[2].rows[r][L][J] = one.items[2].rows[r][J]

(* the two pose dictionaries hold the same links and the same poses *)
SamePoses(a, b) ==
  /\ DOMAIN a.items = DOMAIN b.items
  /\ \A link \in DOMAIN a.items : \A k \in 1 .. 2 :
       LET x == a.items[link].items[k].rows
           y == b.items[link].items[k].rows
       IN  \A r \in 1 .. BLen(x, y) : BAt(x, r) = BAt(y, r)

(* C4: forward kinematics of all links returns the same poses for the same  *)
(* links with the index sweep and with the recursion from the root.         *)
C4_SweepEqualsRecursion ==
  (call.fn = "compute_forward_kinematics_all_links" /\ err = "") =>
    SamePoses(ret, compute_forward_kinematics_all_links(
                     MStart(bodies), call.q.rows, ~call.recursive).ret)

(* both strategies were run on a robot with a fixed link behind a joint *)
C4_Witness ==
  /\ call.fn = "compute_forward_kinematics_all_links" /\ err = ""
  /\ call.recursive
  /\ DOMAIN ret.items = LinkNames
  /\ \E link \in LinkNames : ret.items[link].items[1].rows[1] # Zero3
  /\ \E k \in 1 .. NumLinks : links[k].joint_type = "fixed" /\ k > 2

(* the returned tensor t has the batch axis of the argument q, or none *)
ShapeFollows(t, q) ==
  IF q.ndim = 1 THEN ~t.batched ELSE t.batched /\ Len(t.rows) = Len(q.rows)

(* C7: a call given one unbatched row returns tensors without a batch axis, *)
(* a call given a batch of B rows returns tensors with leading axis B.      *)
C7_BatchAxisFollowsInput ==
  err = "" =>
    CASE ret.kind = "tensor" -> ShapeFollows(ret, call.q)
      [] ret.kind = "tuple" -> \A k \in 1 .. 2 : ShapeFollows(ret.items[k], call.q)
      [] ret.kind = "dict" -> \A link \in DOMAIN ret.items : \A k \in 1 .. 2 :
                                ShapeFollows(ret.items[link].items[k], call.q)
      [] OTHER -> TRUE

(* a call that names a link the tree does not have *)
UnknownLinkCall(c) ==
  /\ c.fn \in {"compute_forward_kinematics", "compute_endeffector_jacobian"}
  /\ c.link_name \notin LinkNames

(* C9: a call naming a link that is not in the tree ends in an error,       *)
(* returns nothing and leaves every link's state as it was.                 *)
C9_UnknownLinkBeforeAnyWrite ==
  [][UnknownLinkCall(call') => (err' # "" /\ ret' = None /\ bodies' = bodies)]_vars

-----------------------------------------------------------------------------
(* The inverse-dynamics calls *)

DynRobots == {ChainFixedAfter, Branching, ChainMasslessTip}

(* argument tuples (q, qd, qdd_des) of matching shapes *)
DynTensorsOf(n) == {Arg1(RowFrom(1, n)), Arg2(BatchOf(RowFrom(0, n), MaxBatch))}

DynTriples(n) == {<<q, Like(q, 1), Like(q, -1)>> : q \in DynTensorsOf(n)}


InitDyn == \E ls \in DynRobots : Construct(ls)

(* a returned tensor, handed to the next call as an argument *)
AsArg(t) == IF t.batched THEN Arg2(t.rows) ELSE Arg1(t.rows[1])

(* f = compute_inverse_dynamics(q, qd, qdd_des): the torques the preceding  *)
(* call returned, with the q and qd it was given                            *)
TorquesJustComputed ==
  IF call.fn = "compute_inverse_dynamics" /\ err = ""
  THEN {<<call.q, call.qd, AsArg(ret)>>}
  ELSE {}

NextDyn ==
  \/ ComputeInverseDynamics(DynTriples(n_dofs), Flags)
  \/ ComputeLagrangianInertiaMatrix(DynTensorsOf(n_dofs), Flags)
  \/ ComputeForwardDynamics(TorquesJustComputed, Flags)

SpecDyn == InitDyn /\ [][NextDyn]_vars

-----------------------------------------------------------------------------
(* Every public call, with well-shaped and ill-shaped arguments *)

CallRobots == {ChainFixedAfter, ChainFixedFirst}

CallQ(n) == Arg2(BatchOf(RowFrom(0, n), MaxBatch))
Longer(q) == [q EXCEPT !.rows = BMap(LAMBDA r : Append(r, NZero), q.rows)]
Shorter(q) == [q EXCEPT !.rows = BMap(LAMBDA r : Tail(r), q.rows)]
FewerRows(q) == Arg2(<<q.rows[1]>>)

CallPairs(n) ==
  {<<CallQ(n), Like(CallQ(n), 1)>>, <<Longer(CallQ(n)), Longer(CallQ(n))>>,
   <<CallQ(n), Shorter(CallQ(n))>>, <<CallQ(n), FewerRows(CallQ(n))>>,
   <<Arg1(RowFrom(0, n)), CallQ(n)>>}

CallTriples(n) ==
  {<<CallQ(n), Like(CallQ(n), 1), Like(CallQ(n), -1)>>,
   <<Shorter(CallQ(n)), Shorter(CallQ(n)), Shorter(CallQ(n))>>,
   <<CallQ(n), Longer(CallQ(n)), CallQ(n)>>,
   <<CallQ(n), CallQ(n), Shorter(CallQ(n))>>,
   <<CallQ(n), CallQ(n), Longer(CallQ(n))>>,
   <<CallQ(n), CallQ(n), FewerRows(CallQ(n))>>}

(* an applied force with too many or too few entries per row *)
WrongForce(n) ==
  {<<CallQ(n), CallQ(n), Longer(CallQ(n))>>, <<CallQ(n), CallQ(n), Shorter(CallQ(n))>>}

(* gravity and damping both on *)
CallFlags == {<<TRUE, TRUE>>}

InitCalls == \E ls \in CallRobots : Construct(ls)

NextCalls ==
  \/ UpdateKinematicState(CallPairs(n_dofs))
  \/ ComputeForwardKinematicsAllLinks({CallQ(n_dofs)})
  \/ ComputeForwardKinematics({CallQ(n_dofs)}, {links[NumLinks].name, "no_such_link"})
  \/ ComputeEndeffectorJacobian({CallQ(n_dofs)}, {links[NumLinks].name})
  \/ ComputeEndeffectorJacobianAllLinks({CallQ(n_dofs)})
  \/ ComputeInverseDynamics(CallTriples(n_dofs), CallFlags)
  \/ ComputeNonLinearEffects({<<CallQ(n_dofs), Like(CallQ(n_dofs), 1)>>,
                              <<CallQ(n_dofs), Shorter(CallQ(n_dofs))>>}, CallFlags)
  \/ ComputeLagrangianInertiaMatrix({CallQ(n_dofs), Longer(CallQ(n_dofs))}, CallFlags)
  \/ ComputeForwardDynamics(CallTriples(n_dofs), CallFlags)

SpecCalls == InitCalls /\ [][NextCalls]_vars

(* the calls that take several tensors, on one robot, forward dynamics also *)
(* without damping                                                          *)
InitShapes == Construct(ChainFixedAfter)

NextShapes ==
  \/ UpdateKinematicState(CallPairs(n_dofs))
  \/ ComputeInverseDynamics(CallTriples(n_dofs), CallFlags)
  \/ ComputeNonLinearEffects(CallPairs(n_dofs), CallFlags)
  \/ ComputeLagrangianInertiaMatrix({CallQ(n_dofs), Longer(CallQ(n_dofs))}, CallFlags)
  \/ ComputeForwardDynamics(CallTriples(n_dofs), CallFlags)
  \/ ComputeForwardDynamics(WrongForce(n_dofs), {<<TRUE, FALSE>>})

SpecShapes == InitShapes /\ [][NextShapes]_vars

-----------------------------------------------------------------------------
(* Properties of the call contract *)

TensorArgs(c) ==
  CASE c.fn \in {"update_kinematic_state", "compute_non_linear_effects"} -> <<c.q, c.qd>>
    [] c.fn = "compute_inverse_dynamics" -> <<c.q, c.qd, c.qdd_des>>
    [] c.fn = "compute_forward_dynamics" -> <<c.q, c.qd, c.f>>
    [] c.fn = "compute_lagrangian_inertia_matrix" -> <<c.q>>
    [] OTHER -> <<>>

ShapeMismatch(c) ==
  \E k \in 1 .. Len(TensorArgs(c)) :
    \/ RowLen(TensorArgs(c)[k].rows) # n_dofs
    \/ BatchShape(TensorArgs(c)[k]) # BatchShape(TensorArgs(c)[1])

(* C8: a call with a tensor argument whose rows do not have n_dofs entries, *)
(* or with two tensor arguments of different batch sizes, ends in an error  *)
(* and has modified no link's state and no caller tensor.                   *)
C8_ShapeMismatchNoPartialWork ==
  [][ShapeMismatch(call') =>
       /\ err' # ""
       /\ bodies' = bodies
       /\ (call'.fn = "compute_forward_dynamics" => call'.f_after = call'.f)]_vars

-----------------------------------------------------------------------------
(* Properties of the dynamics calls *)

(* the step from compute_inverse_dynamics(q, qd, qdd, g, d) to              *)
(* compute_forward_dynamics(q, qd, its result, g, d)                        *)
RoundTripStep ==
  /\ call.fn = "compute_inverse_dynamics" /\ err = ""
  /\ call'.fn = "compute_forward_dynamics"
  /\ call'.q = call.q /\ call'.qd = call.qd /\ call'.f = AsArg(ret)
  /\ call'.include_gravity = call.include_gravity
  /\ call'.use_damping = call.use_damping

RoundTripReturns == err' = "" /\ AsArg(ret') = call.qdd_des

(* the articulated inertia d = S . IA S of every controlled joint, as the   *)
(* backward sweep of the forward dynamics left it, is non-zero              *)
JointInertiaNonZero(b) ==
  \A k \in 1 .. n_dofs : \A r \in 1 .. Len(b[controlled_joints[k] + 1].d) :
    b[controlled_joints[k] + 1].d[r] # NZero

(* C5: compute_forward_dynamics(q, qd, compute_inverse_dynamics(q, qd, qdd, *)
(* g, d), g, d) returns qdd for every flag combination, on robots whose     *)
(* controlled joints all have a non-zero articulated inertia about their    *)
(* axis.                                                                    *)
C5_RoundTrip ==
  [][(RoundTripStep /\ JointInertiaNonZero(bodies')) => RoundTripReturns]_vars

(* C5 as stated: the round trip returns qdd on every robot, massless        *)
(* controlled links included.                                               *)
C5_RoundTripAnyRobot == [][RoundTripStep => RoundTripReturns]_vars

(* a batched round trip with gravity and damping, a moving robot and        *)
(* non-zero accelerations: f is the inverse dynamics of the returned qdd    *)
C5_Witness ==
  /\ call.fn = "compute_forward_dynamics" /\ err = ""
  /\ call.include_gravity /\ call.use_damping
  /\ call.q.ndim = 2 /\ Len(call.q.rows) > 1
  /\ call.qd # Zeros(call.qd) /\ AsArg(ret) # Zeros(call.q)
  /\ JointInertiaNonZero(bodies)
  /\ AsArg(compute_inverse_dynamics(MStart(bodies), call.q.rows, call.qd.rows, ret.rows,
                                    TRUE, TRUE).ret) = call.f

EntrySub(a, b) == NAdd(a, NNeg(b))

(* C6: column j of compute_lagrangian_inertia_matrix(q) is                  *)
(* compute_inverse_dynamics(q, 0, e_j) - compute_inverse_dynamics(q, 0, 0)  *)
(* with the same flags, one column per controlled joint in DOF order, and   *)
(* the matrix is the same for every combination of the flags.               *)
C6_MassMatrixColumns ==
  (call.fn = "compute_lagrangian_inertia_matrix" /\ err = "") =>
    LET q == call.q.rows
        g == call.include_gravity
        d == call.use_damping
        base == compute_inverse_dynamics(MStart(bodies), q, zeros_like(q), zeros_like(q), g, d).ret.rows
        plain == compute_lagrangian_inertia_matrix(MStart(bodies), q, FALSE, FALSE).ret.rows
    IN  \A r \in 1 .. Len(q) :
          /\ Len(ret.rows[r]) = n_dofs
          /\ \A i \in 1 .. n_dofs :
               /\ Len(ret.rows[r][i]) = n_dofs
               /\ \A j \in 1 .. n_dofs :
                    /\ ret.rows[r][i][j] =
                         EntrySub(compute_inverse_dynamics(
                                    MStart(bodies), q, zeros_like(q),
                                    BRepeat([k \in 1 .. n_dofs |-> IF k = j THEN NOne ELSE NZero],
                                            Len(q)), g, d).ret.rows[r][i],
                                  base[r][i])
                    /\ ret.rows[r][i][j] = plain[r][i][j]

(* a mass matrix of a batch computed with gravity and damping, for a row    *)
(* whose zero-acceleration baseline is not zero                             *)
C6_Witness ==
  /\ call.fn = "compute_lagrangian_inertia_matrix" /\ err = ""
  /\ call.include_gravity /\ call.use_damping
  /\ call.q.ndim = 2 /\ Len(call.q.rows) > 1
  /\ n_dofs > 1
  /\ \E r \in 1 .. Len(ret.rows) :
       /\ \E i \in 1 .. n_dofs : \E j \in 1 .. n_dofs : ret.rows[r][i][j] # NZero
       /\ compute_inverse_dynamics(MStart(bodies), call.q.rows, zeros_like(call.q.rows),
                                   zeros_like(call.q.rows), TRUE, TRUE).ret.rows[r]
            # zeros_like(call.q.rows)[r]

-----------------------------------------------------------------------------
(* compute_inverse_kinematics_jac.  The goal poses, the pose error of an    *)
(* iterate and the damped least-squares update are real-valued; the model   *)
(* keeps the loop and draws, at every pass, the error norm of the iterate   *)
(* (0 .. MaxNorm), whether the update is below min_convergency_update, and  *)
(* the next iterate.                                                        *)

MaxIter == 2       \* max_num_iter ranges over 0 .. MaxIter
MaxNorm == 2       \* error norms range over 0 .. MaxNorm

(* torch.inf: above every norm *)
NormInf == MaxNorm + 1

(* a row of torch.empty that was never assigned *)
Uninit == <<"uninitialized">>

(* delta_norm <= min_error *)
IK_improves_or_ties(delta_norm, min_error) == delta_norm <= min_error

(* delta_norm < min_error *)
IK_improves(delta_norm, min_error) == delta_norm < min_error

IKStartWith(Batches, Confs, Iters, Precisions) ==
  /\ ik.pc # "loop"
  /\ \E batch_size \in Batches, init_conf \in Confs,
        max_num_iter \in Iters, min_precision \in Precisions :
       /\ ik' = [pc |-> "loop", link_name |-> links[NumLinks].name, batch_size |-> batch_size,
                 max_num_iter |-> max_num_iter, min_precision |-> min_precision,
                 th_idx |-> 0, i |-> 0, curr_conf |-> init_conf, min_error |-> NormInf,
                 final_conf |-> [r \in 1 .. batch_size |-> Uninit],
                 evaluated |-> [r \in 1 .. batch_size |-> <<>>],
                 stop |-> [r \in 1 .. batch_size |-> ""],
                 updates |-> [r \in 1 .. batch_size |-> 0],
                 reported |-> {}]
       /\ call' = [fn |-> "compute_inverse_kinematics_jac", link_name |-> links[NumLinks].name,
                   batch_size |-> batch_size, init_conf |-> init_conf,
                   max_num_iter |-> max_num_iter, min_precision |-> min_precision]
  /\ ret' = None /\ err' = "" /\ rbw' = {} /\ stale' = {}
  /\ UNCHANGED <<bodies, dirty, links, n_dofs, controlled_joints, name_to_idx_map>>

IKStart == IKStartWith(1 .. MaxBatch, RowsOf(n_dofs), 0 .. MaxIter, 0 .. MaxNorm)

(* the error of the iterate is recorded; a smaller one becomes final_conf *)
IK_evaluate(k, delta_norm) ==
  [k EXCEPT !.evaluated[k.th_idx + 1] = Append(@, [conf |-> k.curr_conf, norm |-> delta_norm]),
            !.min_error = IF IK_improves(delta_norm, k.min_error) THEN delta_norm ELSE @,
            !.final_conf[k.th_idx + 1] =
               IF IK_improves(delta_norm, k.min_error) THEN k.curr_conf ELSE @]

(* the cap tested with > in place of >= *)
IK_break_after_cap(k, delta_norm, small_update) ==
  IF delta_norm < k.min_precision THEN "precision"
  ELSE IF k.i > k.max_num_iter THEN "cap"
  ELSE IF small_update THEN "update"
  ELSE ""

(* the loop left at the iteration cap only *)
IK_break_cap_only(k, delta_norm, small_update) ==
  IF k.i >= k.max_num_iter THEN "cap" ELSE ""

(* which break ends the loop of this row after the evaluation, "" for none *)
IK_break(k, delta_norm, small_update) ==
  IF delta_norm < k.min_precision THEN "precision"
  ELSE IF k.i >= k.max_num_iter THEN "cap"
  ELSE IF small_update THEN "update"
  ELSE ""

(* after the loop over the rows: if min_error > min_precision, with the     *)
(* min_error the last row left, logger.debug reports that row               *)
IK_report(k) ==
  IF k.min_error > k.min_precision THEN [k EXCEPT !.reported = @ \cup {k.th_idx + 1}] ELSE k

(* the next row started from the last iterate of the row just finished *)
IK_next_row_from_iterate(k, why) ==
  IF k.th_idx + 1 = k.batch_size
  THEN IK_report([k EXCEPT !.stop[k.th_idx + 1] = why, !.pc = "done"])
  ELSE [k EXCEPT !.stop[k.th_idx + 1] = why, !.th_idx = @ + 1, !.i = 0,
                 !.curr_conf = k.curr_conf, !.min_error = NormInf]

(* after a break: the next row starts from the row just finished, or the    *)
(* function returns                                                         *)
IK_next_row(k, why) ==
  IF k.th_idx + 1 = k.batch_size
  THEN IK_report([k EXCEPT !.stop[k.th_idx + 1] = why, !.pc = "done"])
  ELSE [k EXCEPT !.stop[k.th_idx + 1] = why, !.th_idx = @ + 1, !.i = 0,
                 !.curr_conf = k.final_conf[k.th_idx + 1], !.min_error = NormInf]

IK_pass(k, why, next_conf) ==
  IF why = ""
  THEN [k EXCEPT !.curr_conf = next_conf, !.i = @ + 1, !.updates[k.th_idx + 1] = @ + 1]
  ELSE IK_next_row(k, why)

(* the public calls of one pass: forward kinematics of the iterate, and the *)
(* Jacobian unless the pass breaks before it                                *)
IK_jacobian(m1, conf, link_name, why) ==
  IF why \in {"precision", "cap"} THEN m1
  ELSE compute_endeffector_jacobian(m1, <<conf>>, link_name)

IK_calls(b, conf, link_name, why) ==
  IK_jacobian(compute_forward_kinematics(MStart(b), <<conf>>, link_name, FALSE),
              conf, link_name, why)

IK_effects(m, k) ==
  /\ ik' = k
  /\ bodies' = m.bodies
  /\ err' = m.err
  /\ ret' = IF k.pc = "done" THEN Tensor(k.final_conf) ELSE None
  /\ rbw' = m.rbw
  /\ stale' = m.rbw \cap dirty
  /\ dirty' = dirty \cup m.wr
  /\ UNCHANGED <<call, links, n_dofs, controlled_joints, name_to_idx_map>>

(* the damped least-squares update J^T (J J^T + damping_factor^2 I)^-1 e is *)
(* zero when the pose error e is zero, and its norm is then below the       *)
(* (positive) min_convergency_update                                        *)
IK_update_of(delta_norm, small_update) == delta_norm = 0 => small_update

(* one pass of the while loop *)
IKIterate ==
  /\ ik.pc = "loop"
  /\ \E delta_norm \in 0 .. MaxNorm, small_update \in BOOLEAN, next_conf \in RowsOf(n_dofs) :
       /\ IK_update_of(delta_norm, small_update)
       /\ IK_effects(IK_calls(bodies, ik.curr_conf, ik.link_name,
                              IK_break(ik, delta_norm, small_update)),
                     IK_pass(IK_evaluate(ik, delta_norm),
                             IK_break(ik, delta_norm, small_update), next_conf))

InitIK == Construct(Chain2)

NextIK == IKStart \/ IKIterate

SpecIK == InitIK /\ [][NextIK]_vars

(* the first position of ev that holds the smallest norm *)
FirstMin(ev) ==
  CHOOSE k \in 1 .. Len(ev) : /\ \A j \in 1 .. Len(ev) : ev[k].norm <= ev[j].norm
                              /\ \A j \in 1 .. (k - 1) : ev[j].norm > ev[k].norm

BestError(r) == ik.evaluated[r][FirstMin(ik.evaluated[r])].norm

(* C11: the call ends without an error and returns every row's best-seen    *)
(* configuration, and every row whose best error is still above             *)
(* min_precision has been reported, not only the last row.                  *)
C11_EveryUnconvergedRowReported ==
  ik.pc = "done" =>
    /\ err = ""
    /\ \A r \in 1 .. ik.batch_size :
         /\ ret.rows[r] = ik.evaluated[r][FirstMin(ik.evaluated[r])].conf
         /\ BestError(r) > ik.min_precision => r \in ik.reported

-----------------------------------------------------------------------------
(* Construction from any ordered link list the loader supplies, followed by *)
(* kinematic calls on the models that were constructed                      *)

BuildDescriptions == {ChainFixedAfter, Branching, ChildFirst, DanglingParent}

InitBuild == \E ls \in BuildDescriptions : Construct(ls)

NextBuild ==
  \/ Constructed /\ UpdateKinematicState(MatchedPairs(n_dofs))
  \/ Constructed /\ ComputeForwardKinematicsAllLinks(TensorsOf(n_dofs))

SpecBuild == InitBuild /\ [][NextBuild]_vars

(* C13: in a constructed model link 0 is the base and the parent of every   *)
(* other link has a smaller index than the link; a description that breaks  *)
(* this, or names a parent that is no link, does not get constructed.       *)
C13_ParentsPrecedeChildren ==
  Constructed =>
    /\ links[1].parent = "none"
    /\ \A i \in 1 .. (NumLinks - 1) :
         /\ links[i + 1].parent \in LinkNames
         /\ ParentIdx(i) < i

-----------------------------------------------------------------------------
(* The ordering of the controlled joints *)

(* the controlled-joint list holds the links with a joint that is not       *)
(* fixed, in increasing link order; the link at position k has joint_idx k  *)
ControlledListInOrder ==
  /\ n_dofs = Len(controlled_joints)
  /\ \A i \in 0 .. (NumLinks - 1) :
       IF links[i + 1].joint_type = "fixed"
       THEN bodies[i + 1].joint_idx = -1 /\ ~IsIn(i, controlled_joints)
       ELSE IsIn(i, controlled_joints)
  /\ \A k \in 1 .. n_dofs :
       /\ bodies[controlled_joints[k] + 1].joint_idx = k - 1
       /\ k > 1 => controlled_joints[k - 1] < controlled_joints[k]

(* column k of q, and of qd where the call takes one, became the joint      *)
(* state of the link at position k                                          *)
ColumnsSetJointState ==
  \A k \in 1 .. n_dofs : \A r \in 1 .. Len(call.q.rows) :
    LET body == bodies[controlled_joints[k] + 1]
    IN  /\ BAt(body.joint_pose, r) = JointPoseRow(body, call.q.rows[r][k])
        /\ BAt(body.joint_vel, r) =
             JointMotionRow(body, IF "qd" \in DOMAIN call THEN call.qd.rows[r][k] ELSE NZero)

(* column k of qdd_des became the joint acceleration of the link at         *)
(* position k, and column k of the returned forces is that link's force     *)
(* about its axis plus its damping                                          *)
InverseDynamicsColumns ==
  \A k \in 1 .. n_dofs : \A r \in 1 .. Len(call.q.rows) :
    LET body == bodies[controlled_joints[k] + 1]
    IN  /\ BAt(body.joint_acc, r) = JointMotionRow(body, call.qdd_des.rows[r][k])
        /\ ret.rows[r][k] =
             NAdd(BAt(ID_project(body), r),
                  IF call.use_damping
                  THEN NMul(get_joint_damping_const(body), call.qd.rows[r][k]) ELSE NZero)

(* column k of f entered u of the link at position k, and column k of the   *)
(* returned accelerations is the acceleration of that link's joint          *)
ForwardDynamicsColumns ==
  \A k \in 1 .. n_dofs : \A r \in 1 .. Len(call.q.rows) :
    LET body == bodies[controlled_joints[k] + 1]
        parent == bodies[ParentIdx(controlled_joints[k]) + 1]
    IN  /\ BAt(body.u, r) =
             NSub(call.f_after.rows[r][k], sv_dot(BAt(body.pA, r), BAt(body.S, r)))
        /\ BAt(body.acc, r) =
             add_motion_vec(
               add_motion_vec(motion_transform(BAt(parent.acc, r),
                                               CT_inverse(BAt(body.joint_pose, r))),
                              BAt(body.c, r)),
               sv_multiply(BAt(body.S, r), ret.rows[r][k]))

(* the one call that does not run the index sweep *)
SweepSkipped == call.fn = "compute_forward_kinematics_all_links" /\ call.recursive

(* C14: the controlled-joint list is the non-fixed links in increasing link *)
(* order with joint_idx k at position k, and every call reads column k of   *)
(* q, qd, qdd_des and f for that link and returns that link's force or      *)
(* acceleration in column k.                                                *)
C14_OneJointOrdering ==
  /\ ControlledListInOrder
  /\ (err = "" /\ "q" \in DOMAIN call /\ ~SweepSkipped) => ColumnsSetJointState
  /\ (err = "" /\ call.fn = "compute_inverse_dynamics") => InverseDynamicsColumns
  /\ (err = "" /\ call.fn = "compute_forward_dynamics") => ForwardDynamicsColumns

(* forward dynamics returned on the chain whose first joint is fixed, with  *)
(* accelerations that differ between the two controlled joints              *)
C14_Witness ==
  /\ call.fn = "compute_forward_dynamics" /\ err = ""
  /\ controlled_joints = <<2, 3>>
  /\ ret.rows[1][1] # ret.rows[1][2]
  /\ call.q.rows[1][1] # call.q.rows[1][2]

-----------------------------------------------------------------------------
(* Learnable link parameters *)

BodyParams == {"trans", "rot_angles", "joint_damping"}
InertiaParams == {"mass", "inertia_mat", "com"}

(* the field of the body record that holds a body parameter *)
ParamField(parameter_name) == IF parameter_name = "rot_angles" THEN "rot" ELSE parameter_name

(* the object that owns the parameter, or the error the lookup raises *)
get_parent_object_of_param(link_name, parameter_name) ==
  IF link_name \notin DOMAIN name_to_idx_map THEN [err |-> "KeyError"]
  ELSE IF parameter_name \in BodyParams
  THEN [err |-> "", body_idx |-> name_to_idx_map[link_name], owner |-> "body"]
  ELSE IF parameter_name \in InertiaParams
  THEN [err |-> "", body_idx |-> name_to_idx_map[link_name], owner |-> "inertia"]
  ELSE [err |-> "AttributeError"]

(* the attribute is deleted and the module added under its name: from now   *)
(* on the parameter's value is what the module returns                      *)
add_module(body, owner, parameter_name, parametrization) ==
  LET b1 == IF owner = "inertia"
            THEN [body EXCEPT !.inertia[parameter_name] = parametrization.value]
            ELSE [body EXCEPT ![ParamField(parameter_name)] = parametrization.value]
  IN  [b1 EXCEPT !.modules = (parameter_name :> [requires_grad |-> TRUE]) @@ @]

(* the module is added to every body *)
MLP_replace_every_link(b, po, parameter_name, parametrization) ==
  [k \in 1 .. Len(b) |-> add_module(b[k], po.owner, parameter_name, parametrization)]

MLP_replace(b, po, parameter_name, parametrization) ==
  [b EXCEPT ![po.body_idx + 1] = add_module(@, po.owner, parameter_name, parametrization)]

(* what a call on the link parameters leaves behind: it reads and writes no *)
(* per-call state                                                           *)
ParamEffects(c, e, b) ==
  /\ ik.pc # "loop"
  /\ call' = c
  /\ err' = e
  /\ bodies' = b
  /\ ret' = None
  /\ rbw' = {}
  /\ stale' = {}
  /\ UNCHANGED <<dirty, ik, links, n_dofs, controlled_joints, name_to_idx_map>>

MakeLinkParamLearnable(names, Ps) ==
  \E link_name \in names, pp \in Ps :
    LET po == get_parent_object_of_param(link_name, pp[1])
    IN  ParamEffects([fn |-> "make_link_param_learnable", link_name |-> link_name,
                      parameter_name |-> pp[1], parametrization |-> pp[2]],
                     po.err,
                     IF po.err = "" THEN MLP_replace(bodies, po, pp[1], pp[2]) ELSE bodies)

(* the parameter must be a module; its parameters then get requires_grad *)
set_requires_grad(b, po, link_name, parameter_name, flag) ==
  IF po.err # "" THEN [err |-> po.err, bodies |-> b]
  ELSE IF parameter_name \notin DOMAIN b[po.body_idx + 1].modules
  THEN [err |-> "AssertionError", bodies |-> b]
  ELSE [err |-> "",
        bodies |-> [b EXCEPT ![po.body_idx + 1].modules[parameter_name].requires_grad = flag]]

FreezeLearnableLinkParam(names, Ps) ==
  \E link_name \in names, parameter_name \in Ps :
    LET r == set_requires_grad(bodies, get_parent_object_of_param(link_name, parameter_name),
                               link_name, parameter_name, FALSE)
    IN  ParamEffects([fn |-> "freeze_learnable_link_param", link_name |-> link_name,
                      parameter_name |-> parameter_name], r.err, r.bodies)

UnfreezeLearnableLinkParam(names, Ps) ==
  \E link_name \in names, parameter_name \in Ps :
    LET r == set_requires_grad(bodies, get_parent_object_of_param(link_name, parameter_name),
                               link_name, parameter_name, TRUE)
    IN  ParamEffects([fn |-> "unfreeze_learnable_link_param", link_name |-> link_name,
                      parameter_name |-> parameter_name], r.err, r.bodies)

(* a replacement for the mass of a link, and one under a name that is no    *)
(* parameter                                                                *)
ParamInputs == {<<"mass", [value |-> N(2)]>>, <<"bogus", [value |-> NZero]>>}

ParamNames == {pp[1] : pp \in ParamInputs}

ParamLinks == {links[NumLinks].name, "no_such_link"}

(* no call is made while another one runs *)
NoCallRunning == ik.pc # "loop"

InitParams == Construct(Chain2)

NextParams ==
  \/ MakeLinkParamLearnable(ParamLinks, ParamInputs)
  \/ FreezeLearnableLinkParam(ParamLinks, ParamNames)
  \/ UnfreezeLearnableLinkParam(ParamLinks, ParamNames)
  \/ NoCallRunning /\ ComputeForwardKinematics({CallQ(n_dofs)}, {links[NumLinks].name})
  \/ NoCallRunning /\ ComputeEndeffectorJacobian({CallQ(n_dofs)}, {links[NumLinks].name})
  \/ NoCallRunning
       /\ ComputeInverseDynamics({<<CallQ(n_dofs), Like(CallQ(n_dofs), 1), CallQ(n_dofs)>>},
                                 CallFlags)
  \/ NoCallRunning
       /\ ComputeForwardDynamics({<<CallQ(n_dofs), Like(CallQ(n_dofs), 1), CallQ(n_dofs)>>},
                                 CallFlags)
  \/ IKStartWith({1}, {RowFrom(0, n_dofs)}, {0}, {0})
  \/ IKIterate

SpecParams == InitParams /\ [][NextParams]_vars

(* what construction fixed of body k *)
Topology(b, k) ==
  <<b[k].name, b[k].joint_id, b[k].joint_idx, b[k].joint_type, b[k].joint_axis>>

TopologyKept ==
  /\ links' = links
  /\ name_to_idx_map' = name_to_idx_map
  /\ n_dofs' = n_dofs
  /\ controlled_joints' = controlled_joints
  /\ Len(bodies') = Len(bodies)
  /\ \A k \in 1 .. Len(bodies) : Topology(bodies', k) = Topology(bodies, k)

(* the physical parameters of a body, the named one left out *)
OtherParams(body, parameter_name) ==
  [p \in (BodyParams \cup InertiaParams) \ {parameter_name} |->
     IF p \in InertiaParams THEN body.inertia[p] ELSE body[ParamField(p)]]

OtherModules(body, parameter_name) ==
  [p \in DOMAIN body.modules \ {parameter_name} |-> body.modules[p]]

(* what a body holds besides its physical parameters *)
OtherFields(body, parameter_name) ==
  [f \in DOMAIN body \ {"inertia", "modules", ParamField(parameter_name)} |-> body[f]]

ParamValue(body, parameter_name) ==
  IF parameter_name \in InertiaParams THEN body.inertia[parameter_name]
  ELSE body[ParamField(parameter_name)]

(* the step replaced the named parameter of the named link by the module,   *)
(* and nothing else                                                         *)
OnlyNamedParamReplaced ==
  LET i == name_to_idx_map[call'.link_name] + 1
      p == call'.parameter_name
  IN  /\ \A k \in (1 .. Len(bodies)) \ {i} : bodies'[k] = bodies[k]
      /\ OtherParams(bodies'[i], p) = OtherParams(bodies[i], p)
      /\ OtherModules(bodies'[i], p) = OtherModules(bodies[i], p)
      /\ ParamValue(bodies'[i], p) = call'.parametrization.value
      /\ p \in DOMAIN bodies'[i].modules
      /\ OtherFields(bodies'[i], p) = OtherFields(bodies[i], p)

MakeLearnableStep ==
  call'.fn = "make_link_param_learnable" /\ <<call', bodies', err'>> # <<call, bodies, err>>

(* C15: no call changes the links, the name map, n_dofs, the controlled     *)
(* list or what construction fixed of a body; make_link_param_learnable     *)
(* replaces the named parameter of the named link only, and under a name    *)
(* that is no parameter it raises and changes no body.                      *)
C15_TopologyImmutable ==
  [][/\ TopologyKept
     /\ (MakeLearnableStep /\ err' = "") => OnlyNamedParamReplaced
     /\ (MakeLearnableStep /\ call'.parameter_name \notin BodyParams \cup InertiaParams)
          => (err' # "" /\ bodies' = bodies)]_vars

(* the mass of the last link was replaced, its module then frozen, and      *)
(* inverse dynamics ran with the new mass; the other link kept its mass     *)
C15_Witness ==
  /\ call.fn = "compute_inverse_dynamics" /\ err = ""
  /\ bodies[NumLinks].inertia.mass = N(2)
  /\ links[NumLinks].inertia.mass = N(1)
  /\ bodies[NumLinks].modules["mass"].requires_grad = FALSE
  /\ bodies[NumLinks - 1].inertia.mass = N(1)
  /\ bodies[NumLinks - 1].modules = <<>>

-----------------------------------------------------------------------------
(* Division by the joint inertia d in compute_forward_dynamics *)

IsFinite(a) == a[2] # 0

(* C16: compute_forward_dynamics returns finite accelerations, also when    *)
(* the articulated inertia d of a controlled joint is zero.                 *)
C16_ZeroInertiaFiniteAcceleration ==
  (call.fn = "compute_forward_dynamics" /\ err = "")
    => \A r \in 1 .. Len(ret.rows) : \A k \in 1 .. n_dofs : IsFinite(ret.rows[r][k])

-----------------------------------------------------------------------------
(* compute_inverse_kinematics_gb *)

(* init_conf left out *)
NoTensor == [ndim |-> 0, rows |-> <<>>]

(* the tensor arguments of the call, in the order preprocess sees them *)
GB_tensors(trans, rot, init_conf) ==
  IF init_conf = NoTensor THEN <<trans, rot>> ELSE <<trans, rot, init_conf>>

(* the asserts on the shapes of the preprocessed targets *)
GB_shapes_ok(trans, rot) == RowLen(trans.rows) = 3 /\ RowLen(rot.rows) = 4

(* the configuration row 0 starts from *)
GB_first(init_conf, n) == IF init_conf = NoTensor THEN ZeroRow(n) ELSE init_conf.rows[1]

(* the forward kinematics of the passes of one row, one per evaluated       *)
(* configuration                                                            *)
RECURSIVE GB_passes(_, _, _)
GB_passes(m, confs, link_name) ==
  IF confs = <<>> \/ m.err # "" THEN m
  ELSE GB_passes(compute_forward_kinematics(m, <<Head(confs)>>, link_name, FALSE),
                 Tail(confs), link_name)

(* the rows from r on; steps[r] holds what optimizer.step made of curr_conf *)
(* in each pass of row r, w the configuration the row starts from, the      *)
(* rows of final_conf so far and the starting configurations so far         *)
RECURSIVE GB_rows(_, _, _, _)
GB_rows(w, r, steps, link_name) ==
  IF r > Len(steps) THEN w
  ELSE LET n == Len(steps[r])
           evaluated == IF n = 0 THEN <<>> ELSE <<w.conf>> \o SubSeq(steps[r], 1, n - 1)
           curr_conf == IF n = 0 THEN w.conf ELSE steps[r][n]
           m1 == GB_passes(w.m, evaluated, link_name)
       IN  IF m1.err # "" THEN [w EXCEPT !.m = m1]
           ELSE GB_rows([m |-> m1, conf |-> curr_conf,
                         final_conf |-> Append(w.final_conf, curr_conf),
                         starts |-> Append(w.starts, w.conf)],
                        r + 1, steps, link_name)

compute_inverse_kinematics_gb(m, trans, rot, link_name, init_conf, steps) ==
  IF ~GB_shapes_ok(trans, rot) THEN [m |-> Raise(m, "AssertionError"), starts |-> <<>>]
  ELSE LET w == GB_rows([m |-> m, conf |-> GB_first(init_conf, n_dofs),
                         final_conf |-> <<>>, starts |-> <<>>],
                        1, steps, link_name)
       IN  [m |-> IF w.m.err # "" THEN w.m ELSE [w.m EXCEPT !.ret = Tensor(w.final_conf)],
            starts |-> w.starts]

(* the lists optimizer.step can leave for one row: none when max_num_iter   *)
(* is 0, else one per pass until the loss is small enough or the cap        *)
RECURSIVE StepLists(_, _)
StepLists(Confs, k) ==
  IF k = 0 THEN {<<>>}
  ELSE {<<>>} \cup {<<c>> \o t : c \in Confs, t \in StepLists(Confs, k - 1)}

StepsOf(Confs, batch_size, max_num_iter) ==
  [1 .. batch_size ->
     {t \in StepLists(Confs, max_num_iter) : (Len(t) = 0) <=> (max_num_iter = 0)}]

(* what the call leaves behind; ik keeps the configuration each row started *)
(* from                                                                     *)
GBEffects(c, ts, r) ==
  /\ Effects(c, ts, r.m)
  /\ ik' = [pc |-> "gb", starts |-> r.starts]

ComputeInverseKinematicsGb(Targets, Inits, Iters) ==
  \E tr \in Targets, init_conf \in Inits, max_num_iter \in Iters :
    \E steps \in StepsOf(RowsOf(n_dofs), Len(tr[1].rows), max_num_iter) :
      GBEffects([fn |-> "compute_inverse_kinematics_gb", trans |-> tr[1], rot |-> tr[2],
                 link_name |-> links[NumLinks].name, init_conf |-> init_conf,
                 max_num_iter |-> max_num_iter],
                GB_tensors(tr[1], tr[2], init_conf),
                IF preprocess_ok(GB_tensors(tr[1], tr[2], init_conf))
                THEN compute_inverse_kinematics_gb(MStart(bodies), tr[1], tr[2],
                                                   links[NumLinks].name, init_conf, steps)
                ELSE [m |-> Raise(MStart(bodies), "AssertionError"), starts |-> <<>>])

(* a target position and a target quaternion *)
TargetTrans == <<NOne, NZero, NOne>>
TargetRot == <<NOne, NZero, NZero, NZero>>

(* targets of 1 .. MaxBatch rows, an unbatched target, and one whose        *)
(* quaternion has three entries                                             *)
GBTargets ==
  {<<Arg2(BatchOf(TargetTrans, B)), Arg2(BatchOf(TargetRot, B))>> : B \in 1 .. MaxBatch}
    \cup {<<Arg1(TargetTrans), Arg1(TargetRot)>>,
          <<Arg2(<<TargetTrans>>), Arg2(<<TargetTrans>>)>>}

(* init_conf left out, of shape [n_dofs], and of shape [1, n_dofs] *)
GBInits(n) ==
  {NoTensor} \cup {Arg1(r) : r \in RowsOf(n)} \cup {Arg2(<<r>>) : r \in RowsOf(n)}

InitGB == Construct(Chain2)

NextGB == ComputeInverseKinematicsGb(GBTargets, GBInits(n_dofs), 0 .. MaxIter)

SpecGB == InitGB /\ [][NextGB]_vars

(* targets of shape [B, 3] and [B, 4] *)
BatchedTargets ==
  /\ call.trans.ndim = 2 /\ call.rot.ndim = 2
  /\ Len(call.trans.rows) = Len(call.rot.rows)
  /\ GB_shapes_ok(call.trans, call.rot)

(* C17: compute_inverse_kinematics_gb with targets of shape [B, 3] and      *)
(* [B, 4] accepts an init_conf of shape [n_dofs] and starts row 0 from it,  *)
(* and starts row 0 from zeros when init_conf is left out.                  *)
C17_InitConfSeedsRowZero ==
  (call.fn = "compute_inverse_kinematics_gb" /\ BatchedTargets
     /\ call.init_conf.ndim \in {0, 1})
    => /\ err = ""
       /\ ik.starts[1] = IF call.init_conf = NoTensor THEN ZeroRow(n_dofs)
                         ELSE call.init_conf.rows[1]

-----------------------------------------------------------------------------
(* CoordinateTransform: inverse and composition *)

MaxTrans == 1      \* translation entries range over -MaxTrans .. MaxTrans

(* the rotations by quarter turns about the three axes, composed *)
Rotations ==
  {MMul(x_rot(a), MMul(y_rot(b), z_rot(c))) : a \in 0 .. 3, b \in 0 .. 3, c \in 0 .. 3}

Translations == {V3(a, b, c) : a \in -MaxTrans .. MaxTrans, b \in -MaxTrans .. MaxTrans,
                               c \in -MaxTrans .. MaxTrans}

Transforms == {CT(R, t) : R \in Rotations, t \in Translations}

CTEffects(c, T) ==
  /\ call' = c
  /\ ret' = [kind |-> "transform", value |-> T]
  /\ err' = ""
  /\ UNCHANGED <<links, bodies, n_dofs, controlled_joints, name_to_idx_map,
                 rbw, stale, dirty, ik>>

(* T.inverse() *)
CTInverse ==
  /\ call.fn = "CoordinateTransform"
  /\ CTEffects([fn |-> "inverse", origin |-> call.self, self |-> call.self, twice |-> FALSE],
               CT_inverse(call.self))

(* T.inverse().inverse() *)
CTInverseAgain ==
  /\ call.fn = "inverse" /\ ~call.twice
  /\ CTEffects([fn |-> "inverse", origin |-> call.origin, self |-> ret.value, twice |-> TRUE],
               CT_inverse(ret.value))

(* T.multiply_transform(T.inverse()) and T.inverse().multiply_transform(T) *)
CTMultiplyWithInverse ==
  /\ call.fn = "inverse" /\ ~call.twice
  /\ \E p \in {<<call.origin, ret.value>>, <<ret.value, call.origin>>} :
       CTEffects([coordinate_transform |-> p[2], fn |-> "multiply_transform",
                  origin |-> call.origin, self |-> p[1]],
                 CT_multiply_transform(p[1], p[2]))

(* a transform T was built; the robot model plays no part *)
InitCT ==
  /\ \E T \in Transforms : call = [fn |-> "CoordinateTransform", self |-> T]
  /\ links = <<BaseLink>>
  /\ bodies = InitBodies(links, 1)
  /\ n_dofs = 0
  /\ controlled_joints = <<>>
  /\ name_to_idx_map = InitNameMap(links)
  /\ ret = None /\ err = ""
  /\ rbw = {} /\ stale = {} /\ dirty = {}
  /\ ik = [pc |-> "idle"]

NextCT == CTInverse \/ CTInverseAgain \/ CTMultiplyWithInverse

SpecCT == InitCT /\ [][NextCT]_vars

(* C18: a transform composed with its inverse, in either order, is the      *)
(* identity transform, and the inverse of the inverse is the transform.     *)
C18_ExactInverse ==
  /\ call.fn = "multiply_transform" => ret.value = CT(Eye3, Zero3)
  /\ (call.fn = "inverse" /\ call.twice) => ret.value = call.origin

(* the inverse of a transform that turns and shifts, composed with it from  *)
(* the left                                                                 *)
C18_Witness ==
  /\ call.fn = "multiply_transform"
  /\ call.coordinate_transform = call.origin
  /\ call.origin.rot # Eye3
  /\ call.origin.trans = V3(1, -1, 0)
  /\ call.self.trans # VNeg(call.origin.trans)
  /\ ret.value = CT(Eye3, Zero3)

-----------------------------------------------------------------------------
(* compute_forward_kinematics(q, link_name, recursive=True) *)

(* the pose and velocity state of every link *)
PoseVelState(b) ==
  [k \in 1 .. Len(b) |-> <<b[k].joint_pose, b[k].joint_vel, b[k].pose, b[k].vel>>]

(* C19: compute_forward_kinematics with recursive=True takes the pose from  *)
(* the recursion from the root body, not from the index sweep, and leaves   *)
(* the pose and velocity state of every link as it was.                     *)
C19_RecursiveQueryLeavesState ==
  [][(call'.fn = "compute_forward_kinematics" /\ call'.recursive)
       => PoseVelState(bodies') = PoseVelState(bodies)]_vars

-----------------------------------------------------------------------------
(* The joint forces compute_inverse_dynamics returns *)

AxisRobots == {Chain2, ChainSkewAxis}

AxisTriples(n) ==
  {<<q, Like(q, k), Like(q, -k)>> : q \in TensorsOf(n), k \in 0 .. MaxQ + 1}

InitAxis == \E ls \in AxisRobots : Construct(ls)

NextAxis == ComputeInverseDynamics(AxisTriples(n_dofs), Flags)

SpecAxis == InitAxis /\ [][NextAxis]_vars

(* the force of a link along or about its joint axis *)
AxisProjection(body, fo) ==
  IF body.joint_type = "prismatic" THEN VDot(fo.lin, body.joint_axis)
  ELSE VDot(fo.ang, body.joint_axis)

(* C20: compute_inverse_dynamics returns, for each controlled joint, the    *)
(* projection of its link's force onto its joint axis (plus the damping     *)
(* term when asked for), for every unit axis; it does not fail on an axis   *)
(* with several non-zero components.                                        *)
C20_ForceProjectedOnAxis ==
  (call.fn = "compute_inverse_dynamics" /\ err # "AssertionError")
    => /\ err = ""
       /\ \A k \in 1 .. n_dofs : \A r \in 1 .. Len(ret.rows) :
            LET body == bodies[controlled_joints[k] + 1]
            IN  ret.rows[r][k] =
                  NAdd(AxisProjection(body, BAt(body.force, r)),
                       IF call.use_damping
                       THEN NMul(get_joint_damping_const(body), call.qd.rows[r][k])
                       ELSE NZero)

-----------------------------------------------------------------------------
(* The backward sweeps of the dynamics calls *)

SweepRobots == {ChainFixedAfter, Branching, ChildFirst}

InitSweep == \E ls \in SweepRobots : Construct(ls)

SweepFlags == {<<FALSE, FALSE>>, <<TRUE, TRUE>>}
NextSweep ==
  \/ ComputeInverseDynamics(DynTriples(n_dofs), SweepFlags)
  \/ ComputeForwardDynamics(DynTriples(n_dofs), SweepFlags)

SpecSweep == InitSweep /\ [][NextSweep]_vars

(* the Newton-Euler force of a link in row r: I a + v x* (I v) *)
OwnForce(body, r) ==
  add_force_vec(multiply_motion_vec(body.inertia, BAt(body.acc, r)),
                cross_force_vec(BAt(body.vel, r),
                                multiply_motion_vec(body.inertia, BAt(body.vel, r))))

(* the forces of the links in S, each transformed by its joint pose, summed *)
RECURSIVE TransferredForces(_, _, _)
TransferredForces(b, S, r) ==
  IF S = {} THEN SVZero
  ELSE LET c == CHOOSE j \in S : TRUE
       IN  add_force_vec(force_transform(BAt(b[c + 1].force, r), BAt(b[c + 1].joint_pose, r)),
                         TransferredForces(b, S \ {c}, r))

(* the base link has no force of its own in the sweep *)
SubtreeForce(b, i, r) ==
  add_force_vec(IF i = 0 THEN SVZero ELSE OwnForce(b[i + 1], r),
                TransferredForces(b, Children(i), r))

(* C21: after the Newton-Euler sweeps every link's force is its own force   *)
(* plus the forces of its children transformed into its frame, each once    *)
(* and with nothing left from an earlier call: what a link handed to its    *)
(* parent was the force of its whole subtree.                               *)
C21_ForceOfWholeSubtree ==
  (call.fn = "compute_inverse_dynamics" /\ err = "")
    => \A i \in 0 .. (NumLinks - 1) : \A r \in 1 .. Len(call.q.rows) :
         BAt(bodies[i + 1].force, r) = SubtreeForce(bodies, i, r)


(* what link c hands to its parent in the articulated-body sweep, computed  *)
(* from the fields the call left on c                                       *)
ProjectedIA(c, r) ==
  LET U == BAt(c.U, r)
      d == BAt(c.d, r)
      Ud == SV(BMap(LAMBDA x : DivEps(x, d), U.lin), BMap(LAMBDA x : DivEps(x, d), U.ang))
  IN  M6Sub(BAt(c.IA, r), M6Outer(U, Ud))

ContributedIA(c, r) ==
  LET transform_mat == CT_to_matrix(BAt(c.joint_pose, r))
  IN  M6Mul(M6Mul(M6Transpose(transform_mat), ProjectedIA(c, r)), transform_mat)

ContributedpA(c, r) ==
  LET tmps == M6Vec(ProjectedIA(c, r), BAt(c.c, r))
      uu == sv_multiply(BAt(c.U, r), DivEps(BAt(c.u, r), BAt(c.d, r)))
  IN  force_transform(add_force_vec(add_force_vec(BAt(c.pA, r), tmps), uu), BAt(c.joint_pose, r))

M6Zero == M6(Zero33, Zero33, Zero33, Zero33)

RECURSIVE SumIA(_, _, _)
SumIA(b, S, r) ==
  IF S = {} THEN M6Zero
  ELSE LET c == CHOOSE j \in S : TRUE
       IN  M6Add(ContributedIA(b[c + 1], r), SumIA(b, S \ {c}, r))

RECURSIVE SumpA(_, _, _)
SumpA(b, S, r) ==
  IF S = {} THEN SVZero
  ELSE LET c == CHOOSE j \in S : TRUE
       IN  add_force_vec(ContributedpA(b[c + 1], r), SumpA(b, S \ {c}, r))

(* IA and pA of link i as initialised by the call plus every child's        *)
(* contribution once                                                        *)
ArticulatedIA(b, i, r) == M6Add(get_spatial_mat(b[i + 1].inertia), SumIA(b, Children(i), r))

ArticulatedpA(b, i, r) ==
  LET vel == BAt(b[i + 1].vel, r)
  IN  add_force_vec(cross_force_vec(vel, multiply_motion_vec(b[i + 1].inertia, vel)),
                    SumpA(b, Children(i), r))

(* U, d and u of link i were computed from the IA and pA the call ends with *)
ProcessedComplete(b, i, r, f) ==
  LET S == SV(Zero3, b[i + 1].joint_axis)
      U == M6Vec(BAt(b[i + 1].IA, r), S)
      pAS == sv_dot(BAt(b[i + 1].pA, r), S)
  IN  /\ BAt(b[i + 1].U, r) = U
      /\ BAt(b[i + 1].d, r) = sv_dot(S, U)
      /\ BAt(b[i + 1].u, r) = IF b[i + 1].joint_idx # -1
                              THEN NSub(BAt(f, r)[b[i + 1].joint_idx + 1], pAS)
                              ELSE NNeg(pAS)

(* C22: after compute_forward_dynamics every non-base link's IA and pA are  *)
(* the values initialised in this call plus the projected contribution of   *)
(* each of its children exactly once, U, d and u of the link were computed  *)
(* from these complete values, and the base link has received nothing       *)
C22_ArticulatedInertiaComplete ==
  (call.fn = "compute_forward_dynamics" /\ err = "")
    => /\ bodies[1].IA = Unset /\ bodies[1].pA = Unset
       /\ \A i \in 1 .. (NumLinks - 1) : \A r \in 1 .. Len(call.q.rows) :
            /\ BAt(bodies[i + 1].IA, r) = ArticulatedIA(bodies, i, r)
            /\ BAt(bodies[i + 1].pA, r) = ArticulatedpA(bodies, i, r)
            /\ ProcessedComplete(bodies, i, r, call.f_after.rows)



-----------------------------------------------------------------------------
(* The state every kinematic update leaves on the base and the fixed prefix *)

KinematicCalls ==
  {"update_kinematic_state", "compute_forward_kinematics", "compute_inverse_dynamics",
   "compute_forward_dynamics", "compute_endeffector_jacobian",
   "compute_endeffector_jacobian_all_links"}

KinematicStateUpdated == call.fn \in KinematicCalls /\ err = ""

(* C23: after a successful call that updates the kinematic state with a     *)
(* batch of B rows, the base link's spatial velocity is B rows of zeros,    *)
(* and every link before the first controlled joint holds B rows of the     *)
(* joint pose at position zero and B rows of zero joint velocity            *)
C23_BaseAndFixedPrefixZero ==
  KinematicStateUpdated
    => LET B == Len(call.q.rows)
       IN  /\ bodies[1].vel = BRepeat(SVZero, B)
           /\ \A i \in 0 .. (controlled_joints[1] - 1) :
                /\ bodies[i + 1].joint_pose = BRepeat(JointPoseRow(bodies[i + 1], NZero), B)
                /\ bodies[i + 1].joint_vel = BRepeat(SVZero, B)

(* a batch of several rows on a robot whose first joint is fixed *)
C23_Witness ==
  /\ KinematicStateUpdated
  /\ Len(call.q.rows) > 1
  /\ controlled_joints[1] > 1
  /\ call.fn = "compute_forward_dynamics"



-----------------------------------------------------------------------------
(* Termination of compute_inverse_kinematics_jac.  The while loop runs in   *)
(* the caller's thread until a break, so a pass that can be taken is taken. *)
(* IKLoopPass is what IKIterate does to the loop's own variables; in a      *)
(* state with ik.pc = "loop" the steps of NextIK that change ik are the     *)
(* steps of IKIterate, so fairness of the one is fairness of the other      *)

IKLoopPass ==
  /\ ik.pc = "loop"
  /\ \E delta_norm \in 0 .. MaxNorm, small_update \in BOOLEAN, next_conf \in RowsOf(n_dofs) :
       /\ IK_update_of(delta_norm, small_update)
       /\ ik' = IK_pass(IK_evaluate(ik, delta_norm),
                        IK_break(ik, delta_norm, small_update), next_conf)

SpecIKFair == InitIK /\ [][NextIK]_vars /\ WF_ik(IKLoopPass)

(* the rows whose loop has ended *)
IKEndedRows == {r \in 1 .. ik.batch_size : ik.stop[r] # ""}

(* per row: at most max_num_iter updates and max_num_iter + 1 evaluations *)
IKWithinBudget ==
  \A r \in 1 .. ik.batch_size :
    /\ ik.updates[r] <= ik.max_num_iter
    /\ Len(ik.evaluated[r]) <= ik.max_num_iter + 1
    /\ Len(ik.evaluated[r]) <= ik.updates[r] + 1

(* a row ended in the first pass that met a break condition, and the break  *)
(* is the first of precision, cap, update that applied                      *)
IKEndedAtFirstBreak ==
  \A r \in IKEndedRows :
    LET ev == ik.evaluated[r]
        n == Len(ev)
    IN  /\ n = ik.updates[r] + 1
        /\ \A j \in 1 .. (n - 1) : ~(ev[j].norm < ik.min_precision) /\ j - 1 < ik.max_num_iter
        /\ ik.stop[r] = "precision" <=> ev[n].norm < ik.min_precision
        /\ ik.stop[r] = "cap" <=> (~(ev[n].norm < ik.min_precision) /\ n - 1 >= ik.max_num_iter)
        /\ ik.stop[r] = "update" <=> (~(ev[n].norm < ik.min_precision) /\ n - 1 < ik.max_num_iter)

(* C24: a call of compute_inverse_kinematics_jac that has started returns;  *)
(* every row makes at most max_num_iter updates and max_num_iter + 1        *)
(* forward-kinematics evaluations, and ends in the first pass in which the  *)
(* error is below min_precision, else the counter has reached max_num_iter, *)
(* else the update is below min_convergency_update                          *)
C24_TerminatesWithinBudget ==
  (ik.pc = "loop") ~> (ik.pc = "done" /\ IKWithinBudget /\ IKEndedAtFirstBreak)

(* a returned batch with a row that used its whole budget and a row that    *)
(* ended early on a small update                                            *)
C24_Witness ==
  /\ ik.pc = "done" /\ ik.batch_size > 1 /\ ik.max_num_iter > 1
  /\ \E r \in 1 .. ik.batch_size :
       ik.stop[r] = "cap" /\ ik.updates[r] = ik.max_num_iter
                          /\ Len(ik.evaluated[r]) = ik.max_num_iter + 1
  /\ \E r \in 1 .. ik.batch_size : ik.stop[r] = "update" /\ ik.updates[r] < ik.max_num_iter



-----------------------------------------------------------------------------
(* The configuration each row of the two inverse-kinematics solvers starts  *)
(* from                                                                     *)

InitSolvers == Construct(Chain2)

(* targets of MaxBatch rows and an unbatched target *)
SolverTargets ==
  {<<Arg2(BatchOf(TargetTrans, MaxBatch)), Arg2(BatchOf(TargetRot, MaxBatch))>>,
   <<Arg1(TargetTrans), Arg1(TargetRot)>>}

NextSolvers ==
  \/ IKStartWith({MaxBatch}, RowsOf(n_dofs), {MaxIter}, 1 .. MaxNorm)
  \/ IKIterate
  \/ ik.pc # "loop" /\ ComputeInverseKinematicsGb(SolverTargets,
                                                  {NoTensor, Arg1(RowFrom(1, n_dofs))}, 0 .. 1)

SpecSolvers == InitSolvers /\ [][NextSolvers]_vars

(* compute_inverse_kinematics_jac: a row that has been evaluated started    *)
(* after the row before it had ended, from that row's final_conf, row 0     *)
(* from init_conf; no row beyond the current one has been touched; what is  *)
(* returned is final_conf                                                   *)
JacRowsChained ==
  ik.pc \in {"loop", "done"} =>
    /\ \A r \in 1 .. ik.batch_size :
         Len(ik.evaluated[r]) > 0 =>
           /\ r <= ik.th_idx + 1
           /\ r = 1 => ik.evaluated[r][1].conf = call.init_conf
           /\ r > 1 => /\ ik.stop[r - 1] # ""
                       /\ ik.evaluated[r][1].conf = ik.final_conf[r - 1]
    /\ ik.pc = "done" => ret.rows = ik.final_conf

(* compute_inverse_kinematics_gb: one start per returned row, row 0 from    *)
(* init_conf (zeros when it is left out), row k from the returned row k - 1 *)
GbRowsChained ==
  (call.fn = "compute_inverse_kinematics_gb" /\ err = "") =>
    /\ Len(ik.starts) = Len(ret.rows)
    /\ ik.starts[1] = GB_first(call.init_conf, n_dofs)
    /\ \A r \in 2 .. Len(ret.rows) : ik.starts[r] = ret.rows[r - 1]

-----------------------------------------------------------------------------
(* The caller's tensors after compute_forward_dynamics *)

(* C26: after a call of compute_forward_dynamics that returns, with or      *)
(* without damping, batched or not, the caller's applied-force tensor holds *)
(* the values it was passed with (q and qd are never written by the call)   *)
C26_AppliedForceUnchanged ==
  (call.fn = "compute_forward_dynamics" /\ err = "") => call.f_after = call.f



-----------------------------------------------------------------------------
(* The link state a pose or Jacobian query leaves behind *)

FrameRobots == {ChainFixedAfter, Branching}

InitFrame == \E ls \in FrameRobots : Construct(ls)

NextFrame ==
  \/ UpdateKinematicState(MatchedPairs(n_dofs))
  \/ ComputeInverseDynamics(DynTriples(n_dofs), CallFlags)
  \/ ComputeForwardKinematics(TensorsOf(n_dofs), {links[NumLinks].name})
  \/ ComputeEndeffectorJacobian(TensorsOf(n_dofs), {links[NumLinks].name})
  \/ ComputeEndeffectorJacobianAllLinks(TensorsOf(n_dofs))

SpecFrame == InitFrame /\ [][NextFrame]_vars

(* a non-recursive compute_forward_kinematics or a Jacobian call returned *)
QueryReturned(c, e) ==
  /\ e = ""
  /\ \/ c.fn = "compute_forward_kinematics" /\ ~c.recursive
     \/ c.fn \in {"compute_endeffector_jacobian", "compute_endeffector_jacobian_all_links"}

AllVelocitiesZero(b, B) ==
  \A k \in 1 .. Len(b) : \A r \in 1 .. B : BAt(b[k].vel, r) = SVZero /\ BAt(b[k].joint_vel, r) = SVZero

(* C27: a non-recursive compute_forward_kinematics or a Jacobian call at q2 *)
(* leaves every link's pose and velocity as update_kinematic_state(q2, 0)   *)
(* would leave them from the state before the call, all velocities zero,    *)
(* whatever velocities the earlier calls had set                            *)
C27_QueryOverwritesState ==
  [][QueryReturned(call', err')
       => /\ PoseVelState(bodies') =
               PoseVelState(update_kinematic_state(MStart(bodies), call'.q.rows,
                                                   zeros_like(call'.q.rows)).bodies)
          /\ AllVelocitiesZero(bodies', Len(call'.q.rows))]_vars

(* a Jacobian call on a batch, after a dynamics call with non-zero          *)
(* velocities had left its forces on the links, at another q than the pose  *)
(* of the first link would show for q = 0                                   *)
C27_Witness ==
  /\ QueryReturned(call, err)
  /\ call.fn = "compute_endeffector_jacobian"
  /\ Len(call.q.rows) > 1
  /\ \E k \in 1 .. Len(bodies) : bodies[k].force # <<SVZero>> /\ bodies[k].force # BRepeat(SVZero, MaxBatch)
  /\ bodies[2].joint_pose # BRepeat(JointPoseRow(bodies[2], NZero), Len(call.q.rows))
  /\ AllVelocitiesZero(bodies, Len(call.q.rows))


=============================================================================
